---- MODULE Spec2Model ----
(***************************************************************************)
(* A model of the admin runtime base classes: AdminBaseQueryBuilder        *)
(* (src/src/baseQueryBuilder.ts), AdminBaseUpdateBuilder and               *)
(* AdminBaseCollectionRef (src/src/baseUpdateBuilder.ts).                  *)
(*                                                                         *)
(* JavaScript values are opaque tokens (strings).  Object identity is the  *)
(* index of an instance in the sequence of instances created so far.      *)
(* The document store is the environment: its query methods build query   *)
(* values, its fetches and writes resolve or reject.                       *)
(***************************************************************************)
EXTENDS Naturals, Sequences, FiniteSets

VARIABLES
    qbuilders,   \* query builder instances, in creation order
    qcall,       \* the last constraint-adding call: receiver, definition, returned instance
    qorigin,     \* per instance: the call that returned it (receiver, definition); history
    qop,         \* the last realizing call (buildQuery / getSnapshot / get) and its store calls
    handles,     \* collection handle instances, in creation order
    constructed, \* per handle: the constructor run that made it (class, arguments, lookups); history
    store,       \* the document store: document path -> document
    written,     \* per document path: the last write the store completed there; history
    cop,         \* the last call made on a collection handle and the store calls it made
    ubuilders,   \* update builder instances, in creation order
    ucall,       \* the last operation-adding call on an update builder
    uorigin,     \* per update builder: the call that returned it; history
    uupdates,    \* how many update calls the target document reference has received
    uop          \* the last commit() and the store calls it made

qvars == <<qbuilders, qcall, qorigin, qop>>

cvars == <<handles, constructed, store, written, cop>>

uvars == <<ubuilders, ucall, uorigin, uupdates, uop>>

vars ==
    <<qbuilders, qcall, qorigin, qop, handles, constructed, store, written, cop,
      ubuilders, ucall, uorigin, uupdates, uop>>

(***************************************************************************)
(* Bounds                                                                  *)
(***************************************************************************)
\* query builder instances alive in SpecQuery, and in SpecBranch
MaxBuilders == 3

MaxBranchBuilders == 4

\* query builder instances alive in SpecCursor
MaxCursorBuilders == 3

\* update builder instances alive in SpecUpdate
MaxUpdateBuilders == 3

\* update calls the target document reference receives in one behaviour
MaxUpdateCalls == 2

\* collection handle instances alive in SpecSubCollection
MaxHandles == 3

\* update builder instances alive in SpecStoreCalls
MaxCommitBuilders == 2

(***************************************************************************)
(* Query builder: argument values the callers pass                         *)
(***************************************************************************)
TheFirestore == "firestore"

TheCollectionRef == "collectionRef"

FieldPaths == {"age"}

WhereOps == {"=="}

WhereValues == {"v1"}

Directions == {"asc", "desc"}

LimitCounts == {"5"}

\* (anchor, extra values) pairs handed to the cursor methods: a document snapshot
\* alone, a field value followed by two more
CursorArgs ==
    { <<"snap", <<>>>>, <<"v1", <<"v2", "v3">>>> }

\* the same, and a document snapshot followed by a value
CursorArgsAnyAnchor == CursorArgs \cup { <<"snap", <<"v2">>>> }

\* the query's collection reference seen as a native query value: no call applied yet
CollectionQuery == [base |-> TheCollectionRef, applied |-> <<>>]

\* what the store's Query.get() can resolve to: an ordered list of result items
DocA == [id |-> "a", data |-> "dataA"]

DocB == [id |-> "b", data |-> "dataB"]

Snapshots == { <<>>, <<DocA, DocB>> }

FetchErrors == {"fetchError"}

NoCall == [this |-> 0, definition |-> [type |-> "none"], returned |-> 0]

\* the origin of an instance made by the constructor, not by a constraint-adding call
Constructed == [this |-> 0, definition |-> [type |-> "none"]]

\* the store has not answered
NoReply == [ok |-> FALSE, value |-> "none"]

NoOp ==
    [op |-> "none", this |-> 0, calls |-> <<>>, query |-> CollectionQuery,
     fetches |-> <<>>, phase |-> "idle", reply |-> NoReply, result |-> "none"]

(***************************************************************************)
(* AdminBaseQueryBuilder                                                   *)
(***************************************************************************)

\* constructor(firestore, collectionRef): constraintDefinitions = []
NewQueryBuilder(firestore, collectionRef) ==
    [firestore |-> firestore, collectionRef |-> collectionRef,
     constraintDefinitions |-> <<>>]

\* a clone that keeps only the new definition
CloneWithConstraint_onlyNew(this, definition) ==
    [firestore |-> this.firestore, collectionRef |-> this.collectionRef,
     constraintDefinitions |-> <<definition>>]

\* Object.create + Object.assign(newBuilder, this) + a fresh array [...defs, definition]
CloneWithConstraint(this, definition) ==
    [firestore |-> this.firestore, collectionRef |-> this.collectionRef,
     constraintDefinitions |-> Append(this.constraintDefinitions, definition)]

\* the clone shares the receiver's array and pushes onto it
addConstraintDefinition_push(b, definition) ==
    /\ b \in 1..Len(qbuilders)
    /\ qbuilders' = Append([qbuilders EXCEPT ![b] = CloneWithConstraint(@, definition)],
                           CloneWithConstraint(qbuilders[b], definition))
    /\ qcall' = [this |-> b, definition |-> definition, returned |-> Len(qbuilders) + 1]
    /\ qorigin' = Append(qorigin, [this |-> b, definition |-> definition])
    /\ UNCHANGED <<qop, cvars, uvars>>

addConstraintDefinition(b, definition) ==
    /\ b \in 1..Len(qbuilders)
    /\ qbuilders' = Append(qbuilders, CloneWithConstraint(qbuilders[b], definition))
    /\ qcall' = [this |-> b, definition |-> definition, returned |-> Len(qbuilders) + 1]
    /\ qorigin' = Append(qorigin, [this |-> b, definition |-> definition])
    /\ UNCHANGED <<qop, cvars, uvars>>

_where(b, fieldPath, opStr, value) ==
    addConstraintDefinition(b,
        [type |-> "where", fieldPath |-> fieldPath, opStr |-> opStr, value |-> value])

orderBy(b, fieldPath, directionStr) ==
    addConstraintDefinition(b,
        [type |-> "orderBy", fieldPath |-> fieldPath, directionStr |-> directionStr])

limit(b, limitCount) ==
    addConstraintDefinition(b, [type |-> "limit", limitCount |-> limitCount])

\* a descriptor kind the switch of buildQuery has no case for
limitToLast_unknownKind(b, limitCount) ==
    addConstraintDefinition(b, [type |-> "limitToFirst", limitCount |-> limitCount])

limitToLast(b, limitCount) ==
    addConstraintDefinition(b, [type |-> "limitToLast", limitCount |-> limitCount])

startAt(b, snapshotOrFieldValue, fieldValues) ==
    addConstraintDefinition(b,
        [type |-> "startAt", snapshotOrFieldValue |-> snapshotOrFieldValue,
         fieldValues |-> fieldValues])

startAfter(b, snapshotOrFieldValue, fieldValues) ==
    addConstraintDefinition(b,
        [type |-> "startAfter", snapshotOrFieldValue |-> snapshotOrFieldValue,
         fieldValues |-> fieldValues])

endBefore(b, snapshotOrFieldValue, fieldValues) ==
    addConstraintDefinition(b,
        [type |-> "endBefore", snapshotOrFieldValue |-> snapshotOrFieldValue,
         fieldValues |-> fieldValues])

endAt(b, snapshotOrFieldValue, fieldValues) ==
    addConstraintDefinition(b,
        [type |-> "endAt", snapshotOrFieldValue |-> snapshotOrFieldValue,
         fieldValues |-> fieldValues])

\* the error of the switch's default case
UnsupportedConstraint == "Unsupported admin constraint type"

\* the native method buildQuery's switch selects for a definition, and its arguments
NativeMethod(def) ==
    CASE def.type = "where" -> "where"
      [] def.type = "orderBy" -> "orderBy"
      [] def.type = "limit" -> "limit"
      [] def.type = "limitToLast" -> "limitToLast"
      [] def.type = "startAt" -> "startAt"
      [] def.type = "startAfter" -> "startAfter"
      [] def.type = "endAt" -> "endAt"
      [] def.type = "endBefore" -> "endBefore"
      [] OTHER -> UnsupportedConstraint

\* the extra values are not spread into the native cursor call
NativeArgs_anchorOnly(def) ==
    CASE def.type = "where" -> <<def.fieldPath, def.opStr, def.value>>
      [] def.type = "orderBy" -> <<def.fieldPath, def.directionStr>>
      [] def.type \in {"limit", "limitToLast"} -> <<def.limitCount>>
      [] def.type \in {"startAt", "startAfter", "endAt", "endBefore"} ->
            <<def.snapshotOrFieldValue>>
      [] OTHER -> <<>>

NativeArgs(def) ==
    CASE def.type = "where" -> <<def.fieldPath, def.opStr, def.value>>
      [] def.type = "orderBy" -> <<def.fieldPath, def.directionStr>>
      [] def.type \in {"limit", "limitToLast"} -> <<def.limitCount>>
      [] def.type \in {"startAt", "startAfter", "endAt", "endBefore"} ->
            <<def.snapshotOrFieldValue>> \o def.fieldValues
      [] OTHER -> <<>>

\* the store's chainable query interface: each method returns a new query value
NativeQuery(q, method, args) ==
    [q EXCEPT !.applied = Append(@, [method |-> method, args |-> args])]

\* every native call is made on the collection reference, not on the running query
ReplayStep_onCollection(acc, def) ==
    LET ret == NativeQuery(CollectionQuery, NativeMethod(def), NativeArgs(def))
    IN  [query |-> ret,
         calls |-> Append(acc.calls,
                     [recv |-> CollectionQuery, method |-> NativeMethod(def),
                      args |-> NativeArgs(def), ret |-> ret]),
         thrown |-> FALSE]

\* one iteration of the forEach in buildQuery: adminQuery = adminQuery.<method>(...args);
\* the default case throws, which ends the loop
ReplayStep(acc, def) ==
    IF acc.thrown THEN acc
    ELSE IF NativeMethod(def) = UnsupportedConstraint THEN [acc EXCEPT !.thrown = TRUE]
    ELSE LET ret == NativeQuery(acc.query, NativeMethod(def), NativeArgs(def))
         IN  [query |-> ret,
              calls |-> Append(acc.calls,
                          [recv |-> acc.query, method |-> NativeMethod(def),
                           args |-> NativeArgs(def), ret |-> ret]),
              thrown |-> FALSE]

RECURSIVE Replay(_, _, _)
Replay(defs, i, acc) ==
    IF i > Len(defs) THEN acc
    ELSE Replay(defs, i + 1, ReplayStep(acc, defs[i]))

\* buildQuery(): the final query and the native calls made, starting from collectionRef
BuildQueryOf(this) ==
    Replay(this.constraintDefinitions, 1,
           [query |-> [base |-> this.collectionRef, applied |-> <<>>], calls |-> <<>>,
            thrown |-> FALSE])

\* the fetch is made as part of buildQuery
buildQuery_fetching(b) ==
    /\ b \in 1..Len(qbuilders)
    /\ qop.phase # "pending"
    /\ LET r == BuildQueryOf(qbuilders[b])
       IN  qop' = [op |-> "buildQuery", this |-> b, calls |-> r.calls, query |-> r.query,
                   fetches |-> <<r.query>>, phase |-> "pending", reply |-> NoReply,
                   result |-> "none"]
    /\ UNCHANGED <<qbuilders, qcall, qorigin, cvars, uvars>>

buildQuery(b) ==
    /\ b \in 1..Len(qbuilders)
    /\ qop.phase # "pending"
    /\ LET r == BuildQueryOf(qbuilders[b])
       IN  qop' = [op |-> "buildQuery", this |-> b, calls |-> r.calls, query |-> r.query,
                   fetches |-> <<>>, phase |-> IF r.thrown THEN "threw" ELSE "returned",
                   reply |-> NoReply,
                   result |-> IF r.thrown THEN UnsupportedConstraint ELSE r.query]
    /\ UNCHANGED <<qbuilders, qcall, qorigin, cvars, uvars>>

\* the fetch is made on the collection reference, not on the realized query
getSnapshot_fetchCollection(b) ==
    /\ b \in 1..Len(qbuilders)
    /\ qop.phase # "pending"
    /\ LET r == BuildQueryOf(qbuilders[b])
       IN  qop' = [op |-> "getSnapshot", this |-> b, calls |-> r.calls, query |-> r.query,
                   fetches |-> <<CollectionQuery>>, phase |-> "pending", reply |-> NoReply,
                   result |-> "none"]
    /\ UNCHANGED <<qbuilders, qcall, qorigin, cvars, uvars>>

\* getSnapshot(): const q = this.buildQuery(); return q.get();
getSnapshot(b) ==
    /\ b \in 1..Len(qbuilders)
    /\ qop.phase # "pending"
    /\ LET r == BuildQueryOf(qbuilders[b])
       IN  qop' = [op |-> "getSnapshot", this |-> b, calls |-> r.calls, query |-> r.query,
                   fetches |-> IF r.thrown THEN <<>> ELSE <<r.query>>,
                   phase |-> IF r.thrown THEN "rejected" ELSE "pending",
                   reply |-> NoReply,
                   result |-> IF r.thrown THEN UnsupportedConstraint ELSE "none"]
    /\ UNCHANGED <<qbuilders, qcall, qorigin, cvars, uvars>>

\* get(): const snapshot = await this.getSnapshot(); ...
QueryBuilder_get(b) ==
    /\ b \in 1..Len(qbuilders)
    /\ qop.phase # "pending"
    /\ LET r == BuildQueryOf(qbuilders[b])
       IN  qop' = [op |-> "get", this |-> b, calls |-> r.calls, query |-> r.query,
                   fetches |-> IF r.thrown THEN <<>> ELSE <<r.query>>,
                   phase |-> IF r.thrown THEN "rejected" ELSE "pending",
                   reply |-> NoReply,
                   result |-> IF r.thrown THEN UnsupportedConstraint ELSE "none"]
    /\ UNCHANGED <<qbuilders, qcall, qorigin, cvars, uvars>>

\* the items are decoded last to first
MapDocsData_reversed(snapshot) ==
    [i \in 1..Len(snapshot) |-> snapshot[Len(snapshot) + 1 - i].data]

\* snapshot.docs.map(doc => doc.data())
MapDocsData(snapshot) ==
    [i \in 1..Len(snapshot) |-> snapshot[i].data]

\* the store resolves the pending fetch with a snapshot
FetchResolves(snapshot) ==
    /\ qop.phase = "pending"
    /\ qop' = [qop EXCEPT !.phase = "resolved",
                          !.reply = [ok |-> TRUE, value |-> snapshot],
                          !.result = IF qop.op = "get" THEN MapDocsData(snapshot)
                                     ELSE snapshot]
    /\ UNCHANGED <<qbuilders, qcall, qorigin, cvars, uvars>>

\* a failed fetch is made once more before the failure is passed on
FetchRejects_refetch(err) ==
    /\ qop.phase = "pending"
    /\ qop' = [qop EXCEPT !.phase = IF Len(qop.fetches) < 2 THEN "pending" ELSE "rejected",
                          !.fetches = IF Len(qop.fetches) < 2 THEN Append(@, qop.query) ELSE @,
                          !.reply = [ok |-> FALSE, value |-> err],
                          !.result = IF Len(qop.fetches) < 2 THEN "none" ELSE err]
    /\ UNCHANGED <<qbuilders, qcall, qorigin, cvars, uvars>>

\* the store rejects the pending fetch
FetchRejects(err) ==
    /\ qop.phase = "pending"
    /\ qop' = [qop EXCEPT !.phase = "rejected",
                          !.reply = [ok |-> FALSE, value |-> err],
                          !.result = err]
    /\ UNCHANGED <<qbuilders, qcall, qorigin, cvars, uvars>>

QStart ==
    /\ qbuilders = <<NewQueryBuilder(TheFirestore, TheCollectionRef)>>
    /\ qcall = NoCall
    /\ qorigin = <<Constructed>>
    /\ qop = NoOp

\* no query builder has been constructed
QNone ==
    /\ qbuilders = <<>>
    /\ qcall = NoCall
    /\ qorigin = <<>>
    /\ qop = NoOp

\* no collection handle has been constructed
CNone ==
    /\ handles = <<>>
    /\ constructed = <<>>
    /\ store = <<>>
    /\ written = <<>>
    /\ cop = [op |-> "none", phase |-> "idle"]

\* no update builder has been constructed
UNone ==
    /\ ubuilders = <<>>
    /\ ucall = [this |-> 0, returned |-> 0]
    /\ uorigin = <<>>
    /\ uupdates = 0
    /\ uop = [op |-> "none", phase |-> "idle"]

QInit ==
    /\ QStart
    /\ CNone
    /\ UNone

\* the instances a caller may still derive from, while fewer than max instances exist
Receivers(max) ==
    IF Len(qbuilders) < max THEN 1..Len(qbuilders) ELSE {}

QNext ==
    \/ \E b \in Receivers(MaxBuilders), f \in FieldPaths, o \in WhereOps, v \in WhereValues :
          _where(b, f, o, v)
    \/ \E b \in Receivers(MaxBuilders), f \in FieldPaths, d \in Directions : orderBy(b, f, d)
    \/ \E b \in Receivers(MaxBuilders), n \in LimitCounts : limit(b, n)
    \/ \E b \in Receivers(MaxBuilders), n \in LimitCounts : limitToLast(b, n)
    \/ \E b \in Receivers(MaxBuilders), c \in CursorArgs : startAt(b, c[1], c[2])
    \/ \E b \in Receivers(MaxBuilders), c \in CursorArgs : startAfter(b, c[1], c[2])
    \/ \E b \in Receivers(MaxBuilders), c \in CursorArgs : endBefore(b, c[1], c[2])
    \/ \E b \in Receivers(MaxBuilders), c \in CursorArgs : endAt(b, c[1], c[2])
    \/ \E b \in 1..Len(qbuilders) : buildQuery(b)
    \/ \E b \in 1..Len(qbuilders) : getSnapshot(b)
    \/ \E b \in 1..Len(qbuilders) : QueryBuilder_get(b)
    \/ \E s \in Snapshots : FetchResolves(s)
    \/ \E e \in FetchErrors : FetchRejects(e)

SpecQuery == QInit /\ [][QNext]_vars

\* Branching chains: more instances, three kinds of constraint
BNext ==
    \/ \E b \in Receivers(MaxBranchBuilders), f \in FieldPaths, o \in WhereOps,
          v \in WhereValues : _where(b, f, o, v)
    \/ \E b \in Receivers(MaxBranchBuilders), f \in FieldPaths, d \in Directions :
          orderBy(b, f, d)
    \/ \E b \in Receivers(MaxBranchBuilders), n \in LimitCounts : limit(b, n)
    \/ \E b \in 1..Len(qbuilders) : buildQuery(b)
    \/ \E b \in 1..Len(qbuilders) : getSnapshot(b)
    \/ \E s \in Snapshots : FetchResolves(s)
    \/ \E e \in FetchErrors : FetchRejects(e)

SpecBranch == QInit /\ [][BNext]_vars

\* Cursor chains: the four cursor methods, with every kind of anchor
KNext ==
    \/ \E b \in Receivers(MaxCursorBuilders), c \in CursorArgsAnyAnchor :
          startAt(b, c[1], c[2])
    \/ \E b \in Receivers(MaxCursorBuilders), c \in CursorArgsAnyAnchor :
          startAfter(b, c[1], c[2])
    \/ \E b \in Receivers(MaxCursorBuilders), c \in CursorArgsAnyAnchor :
          endBefore(b, c[1], c[2])
    \/ \E b \in Receivers(MaxCursorBuilders), c \in CursorArgsAnyAnchor :
          endAt(b, c[1], c[2])
    \/ \E b \in 1..Len(qbuilders) : buildQuery(b)
    \/ \E b \in 1..Len(qbuilders) : getSnapshot(b)
    \/ \E s \in Snapshots : FetchResolves(s)
    \/ \E e \in FetchErrors : FetchRejects(e)

SpecCursor == QInit /\ [][KNext]_vars


(***************************************************************************)
(* AdminBaseCollectionRef: values                                          *)
(***************************************************************************)
\* JavaScript undefined, null and the other falsy values a payload can carry
Undefined == "undefined"

Null == "null"

Zero == "0"

False == "false"

EmptyString == "''"

\* the schema's marker for a server-side timestamp, and what FieldValue.serverTimestamp() returns
ServerTimestampMarker == "serverTimestamp"

ServerTimestampSentinel == "<FieldValue.serverTimestamp()>"

\* what the store keeps where a server-timestamp sentinel was written
TimestampValue == "<Timestamp>"

\* a key that the object does not have
Absent == "<absent>"

\* obj[key] in JavaScript: undefined when the key is missing
Lookup(obj, key) ==
    IF key \in DOMAIN obj THEN obj[key] ELSE Undefined

\* schema === undefined
NoSchema == [defined |-> FALSE]

\* { fields: { name: {}, status: { defaultValue: 'inactive' }, createdAt: { defaultValue: 'serverTimestamp' } } }
SchemaDefaults ==
    [defined |-> TRUE,
     fields |-> [name |-> [defaultValue |-> Undefined],
                 status |-> [defaultValue |-> "inactive"],
                 createdAt |-> [defaultValue |-> ServerTimestampMarker]]]

\* { fields: { name: {}, status: { defaultValue: 0 }, createdAt: {} } }: a falsy default
SchemaFalsyDefault ==
    [defined |-> TRUE,
     fields |-> [name |-> [defaultValue |-> Undefined],
                 status |-> [defaultValue |-> Zero],
                 createdAt |-> [defaultValue |-> Undefined]]]

Schemas == {NoSchema, SchemaDefaults, SchemaFalsyDefault}

\* the payloads callers pass: name always given; status and createdAt given or not
StatusGiven == {Absent, Undefined, Null, Zero, False, EmptyString, "active"}

CreatedAtGiven == {Absent, "t1"}

Payload(status, createdAt) ==
    LET keys == {"name"} \cup (IF status = Absent THEN {} ELSE {"status"})
                         \cup (IF createdAt = Absent THEN {} ELSE {"createdAt"})
    IN  [k \in keys |-> IF k = "name" THEN "x" ELSE IF k = "status" THEN status ELSE createdAt]

Payloads ==
    { Payload(st, cr) : st \in StatusGiven, cr \in CreatedAtGiven }
        \cup { Payload(Absent, Undefined) }

\* SetOptions: `given` is false when the argument is left out; `has` are the keys it holds
NoOptions == [given |-> FALSE, has |-> {}, merge |-> Undefined, mergeFields |-> <<>>]

EmptyOptions == [given |-> TRUE, has |-> {}, merge |-> Undefined, mergeFields |-> <<>>]

MergeTrue == [given |-> TRUE, has |-> {"merge"}, merge |-> "true", mergeFields |-> <<>>]

MergeFalse == [given |-> TRUE, has |-> {"merge"}, merge |-> "false", mergeFields |-> <<>>]

MergeFieldsStatus ==
    [given |-> TRUE, has |-> {"mergeFields"}, merge |-> Undefined, mergeFields |-> <<"status">>]

MergeFalseWithFields ==
    [given |-> TRUE, has |-> {"merge", "mergeFields"}, merge |-> "false",
     mergeFields |-> <<"status">>]

SetOptionsGiven ==
    {NoOptions, EmptyOptions, MergeTrue, MergeFalse, MergeFieldsStatus, MergeFalseWithFields}

\* the document ids of the collection; add() is given one that is free
DocIds == {"d1"}

StoreErrors == {"storeError"}

TheCollectionId == "items"

NoParent == [defined |-> FALSE]

\* the class a handle is made from when the caller uses the base class itself
BaseClass == "AdminBaseCollectionRef"

NoData == [noData |-> TRUE]

NoDocument == [exists |-> FALSE]

WriteResult == [kind |-> "writeResult", fields |-> {"writeTime"}]

NoCollectionCall ==
    [op |-> "none", h |-> 0, id |-> "none", data |-> NoData, options |-> NoOptions,
     lookups |-> <<>>, calls |-> <<>>, sentinelCalls |-> 0, phase |-> "idle",
     reply |-> NoReply, result |-> [kind |-> "none"]]

(***************************************************************************)
(* AdminBaseCollectionRef                                                  *)
(***************************************************************************)

\* firestore.collection(collectionId) and parentRef.collection(collectionId)
FirestoreCollection(firestore, collectionId) ==
    [path |-> <<collectionId>>, by |-> "firestore.collection"]

ParentCollection(parentRef, collectionId) ==
    [path |-> Append(parentRef.path, collectionId), by |-> "parentRef.collection"]

\* both lookups are made, the root-level one first
ConstructorLookups_both(firestore, collectionId, parentRef) ==
    IF parentRef.defined
    THEN <<[method |-> "firestore.collection", on |-> <<>>, collectionId |-> collectionId,
            ret |-> FirestoreCollection(firestore, collectionId)],
           [method |-> "parentRef.collection", on |-> parentRef.path,
            collectionId |-> collectionId,
            ret |-> ParentCollection(parentRef, collectionId)]>>
    ELSE <<[method |-> "firestore.collection", on |-> <<>>, collectionId |-> collectionId,
            ret |-> FirestoreCollection(firestore, collectionId)]>>

\* the collection lookups the constructor makes: `if (parentRef) ... else ...`;
\* `on` is the path of the receiver, empty for the store itself
ConstructorLookups(firestore, collectionId, parentRef) ==
    IF parentRef.defined
    THEN <<[method |-> "parentRef.collection", on |-> parentRef.path,
            collectionId |-> collectionId,
            ret |-> ParentCollection(parentRef, collectionId)]>>
    ELSE <<[method |-> "firestore.collection", on |-> <<>>, collectionId |-> collectionId,
            ret |-> FirestoreCollection(firestore, collectionId)]>>

\* constructor(firestore, collectionId, schema?, parentRef?)
NewCollectionRef(firestore, collectionId, schema, parentRef) ==
    [firestore |-> firestore, collectionId |-> collectionId, schema |-> schema,
     ref |-> IF parentRef.defined
             THEN ParentCollection(parentRef, collectionId)
             ELSE FirestoreCollection(firestore, collectionId)]

\* the record of one constructor run: `new class(firestore, collectionId, schema, parentRef)`
ConstructorRun(class, firestore, collectionId, schema, parentRef) ==
    [class |-> class,
     args |-> [firestore |-> firestore, collectionId |-> collectionId,
               schema |-> schema, parentRef |-> parentRef],
     lookups |-> ConstructorLookups(firestore, collectionId, parentRef)]

\* doc(id): this.ref.doc(id)
doc(this, id) ==
    [defined |-> TRUE, path |-> Append(this.ref.path, id)]

\* a truthiness test, `!dataWithDefaults[fieldName]`, in place of `=== undefined`
IsUnset_falsy(data, fieldName) ==
    Lookup(data, fieldName) \in {Undefined, Null, Zero, False, EmptyString}

\* a test for a missing key, `!(fieldName in dataWithDefaults)`, in place of `=== undefined`
IsUnset_missingKey(data, fieldName) ==
    fieldName \notin DOMAIN data

\* the test `(dataWithDefaults as any)[fieldName] === undefined`
IsUnset(data, fieldName) ==
    Lookup(data, fieldName) = Undefined

\* the serverTimestamp branch without its `=== undefined` test
TimestampFields_evenIfSupplied(schema, data) ==
    { f \in DOMAIN schema.fields :
        schema.fields[f].defaultValue = ServerTimestampMarker }

\* the schema fields applyDefaults assigns: first branch (serverTimestamp), second branch (literal)
TimestampFields(schema, data) ==
    { f \in DOMAIN schema.fields :
        /\ schema.fields[f].defaultValue = ServerTimestampMarker
        /\ IsUnset(data, f) }

\* a truthiness test on the default, `fieldDef.defaultValue &&`, in place of `!== undefined`
LiteralFields_truthyDefault(schema, data) ==
    { f \in DOMAIN schema.fields :
        /\ schema.fields[f].defaultValue \notin {Undefined, Null, Zero, False, EmptyString}
        /\ schema.fields[f].defaultValue # ServerTimestampMarker
        /\ IsUnset(data, f) }

LiteralFields(schema, data) ==
    { f \in DOMAIN schema.fields :
        /\ schema.fields[f].defaultValue # Undefined
        /\ schema.fields[f].defaultValue # ServerTimestampMarker
        /\ IsUnset(data, f) }

\* the defaults are assigned on the caller's object itself, `dataWithDefaults = data`
applyDefaults_inPlace(this, data) ==
    IF ~this.schema.defined
    THEN [data |-> data, sentinelCalls |-> 0, argument |-> data]
    ELSE LET ts == TimestampFields(this.schema, data)
             lit == LiteralFields(this.schema, data)
             dataWithDefaults ==
                 [f \in DOMAIN data \cup ts \cup lit |->
                     IF f \in ts THEN ServerTimestampSentinel
                     ELSE IF f \in lit THEN this.schema.fields[f].defaultValue
                     ELSE data[f]]
         IN  [data |-> dataWithDefaults, sentinelCalls |-> Cardinality(ts),
              argument |-> dataWithDefaults]

\* applyDefaults(data): a copy { ...data } with the defaults assigned; `argument`
\* is the caller's object after the call, which the assignments to the copy leave
\* as it was; `sentinelCalls` counts AdminFieldValue.serverTimestamp()
applyDefaults(this, data) ==
    IF ~this.schema.defined
    THEN [data |-> data, sentinelCalls |-> 0, argument |-> data]
    ELSE LET ts == TimestampFields(this.schema, data)
             lit == LiteralFields(this.schema, data)
         IN  [data |-> [f \in DOMAIN data \cup ts \cup lit |->
                          IF f \in ts THEN ServerTimestampSentinel
                          ELSE IF f \in lit THEN this.schema.fields[f].defaultValue
                          ELSE data[f]],
              sentinelCalls |-> Cardinality(ts),
              argument |-> data]

\* only the merge flag is looked at
IsMerge_flagOnly(options) ==
    /\ options.given
    /\ "merge" \in options.has
    /\ options.merge = "true"

\* options && ('merge' in options && options.merge === true || 'mergeFields' in options)
IsMerge(options) ==
    /\ options.given
    /\ \/ ("merge" \in options.has /\ options.merge = "true")
       \/ "mergeFields" \in options.has

\* the options argument is forwarded as it came, undefined included
OptionsOrEmpty_asGiven(options) ==
    options

\* options || {}
OptionsOrEmpty(options) ==
    IF options.given THEN options ELSE EmptyOptions

\* add(data): dataToWrite = this.applyDefaults(data); return this.ref.add(dataToWrite)
CollectionRef_add(h, data) ==
    /\ h \in 1..Len(handles)
    /\ cop.phase # "pending"
    /\ LET dataToWrite == applyDefaults(handles[h], data)
       IN  cop' = [op |-> "add", h |-> h, id |-> "none", data |-> data,
                   after |-> dataToWrite.argument,
                   options |-> NoOptions, lookups |-> <<>>,
                   calls |-> <<[method |-> "add", on |-> handles[h].ref.path,
                                data |-> dataToWrite.data, options |-> NoOptions]>>,
                   sentinelCalls |-> dataToWrite.sentinelCalls,
                   phase |-> "pending", reply |-> NoReply, result |-> [kind |-> "none"]]
    /\ UNCHANGED <<handles, constructed, store, written, qvars, uvars>>

\* set(id, data, options?)
CollectionRef_set(h, id, data, options) ==
    /\ h \in 1..Len(handles)
    /\ cop.phase # "pending"
    /\ LET docRef == doc(handles[h], id)
           isMerge == IsMerge(options)
           dataToWrite == IF ~isMerge THEN applyDefaults(handles[h], data)
                          ELSE [data |-> data, sentinelCalls |-> 0, argument |-> data]
       IN  cop' = [op |-> "set", h |-> h, id |-> id, data |-> data,
                   after |-> dataToWrite.argument,
                   options |-> options, lookups |-> <<id>>,
                   calls |-> <<[method |-> "set", on |-> docRef.path,
                                data |-> dataToWrite.data,
                                options |-> OptionsOrEmpty(options)]>>,
                   sentinelCalls |-> dataToWrite.sentinelCalls,
                   phase |-> "pending", reply |-> NoReply, result |-> [kind |-> "none"]]
    /\ UNCHANGED <<handles, constructed, store, written, qvars, uvars>>

\* delete(id): return this.doc(id).delete()
CollectionRef_delete(h, id) ==
    /\ h \in 1..Len(handles)
    /\ cop.phase # "pending"
    /\ cop' = [op |-> "delete", h |-> h, id |-> id, data |-> NoData,
               options |-> NoOptions, lookups |-> <<id>>,
               calls |-> <<[method |-> "delete", on |-> doc(handles[h], id).path,
                            data |-> NoData, options |-> NoOptions]>>,
               sentinelCalls |-> 0, phase |-> "pending", reply |-> NoReply, result |-> [kind |-> "none"]]
    /\ UNCHANGED <<handles, constructed, store, written, qvars, uvars>>

\* get(id): snapshot = await this.doc(id).get()
CollectionRef_get(h, id) ==
    /\ h \in 1..Len(handles)
    /\ cop.phase # "pending"
    /\ cop' = [op |-> "get", h |-> h, id |-> id, data |-> NoData,
               options |-> NoOptions, lookups |-> <<id>>,
               calls |-> <<[method |-> "get", on |-> doc(handles[h], id).path,
                            data |-> NoData, options |-> NoOptions]>>,
               sentinelCalls |-> 0, phase |-> "pending", reply |-> NoReply, result |-> [kind |-> "none"]]
    /\ UNCHANGED <<handles, constructed, store, written, qvars, uvars>>

\* a missing document is raised as an error
GetOutcome_throwIfMissing(snapshot) ==
    IF snapshot.exists
    THEN [phase |-> "resolved", result |-> [kind |-> "data", data |-> snapshot.data]]
    ELSE [phase |-> "rejected", result |-> [kind |-> "error", error |-> "not-found"]]

\* get(): return snapshot.exists ? snapshot.data() : undefined
GetOutcome(snapshot) ==
    [phase |-> "resolved",
     result |-> IF snapshot.exists THEN [kind |-> "data", data |-> snapshot.data]
                ELSE [kind |-> "undefined"]]

\* get() catches the failure of the fetch and answers undefined
Settle_catchAll(op, reply) ==
    IF ~reply.ok
    THEN IF op = "get" THEN [phase |-> "resolved", result |-> [kind |-> "undefined"]]
         ELSE [phase |-> "rejected", result |-> [kind |-> "error", error |-> reply.value]]
    ELSE IF op = "get" THEN GetOutcome(reply.value)
    ELSE [phase |-> "resolved", result |-> reply.value]

\* how the method settles once the store call it awaits (or returns) has settled:
\* add, set and delete return the store's promise; get decodes the snapshot;
\* nothing catches a rejection
Settle(op, reply) ==
    IF ~reply.ok THEN [phase |-> "rejected", result |-> [kind |-> "error", error |-> reply.value]]
    ELSE IF op = "get" THEN GetOutcome(reply.value)
    ELSE [phase |-> "resolved", result |-> reply.value]

Settled(reply) ==
    [cop EXCEPT !.reply = reply,
                !.phase = Settle(cop.op, reply).phase,
                !.result = Settle(cop.op, reply).result]

(***************************************************************************)
(* The document store, as the handle's calls see it                        *)
(***************************************************************************)

\* the store refuses a payload that holds an undefined value
Storable(data) ==
    \A f \in DOMAIN data : data[f] # Undefined

\* field values as stored: a server-timestamp sentinel becomes a timestamp
StoredData(data) ==
    [f \in DOMAIN data |->
        IF data[f] = ServerTimestampSentinel THEN TimestampValue ELSE data[f]]

\* a non-merge set leaves the fields of the old document in place
DocumentAfterSet_alwaysMerge(old, data, options) ==
    LET new == StoredData(data)
        kept == IF old.exists THEN old.data ELSE [f \in {} |-> Undefined]
    IN  [exists |-> TRUE,
         data |-> [f \in DOMAIN kept \cup DOMAIN new |->
                     IF f \in DOMAIN new THEN new[f] ELSE kept[f]]]

\* the document a set call leaves behind
DocumentAfterSet(old, data, options) ==
    LET new == StoredData(data)
        kept == IF old.exists THEN old.data ELSE [f \in {} |-> Undefined]
        mergeKeys ==
            IF "mergeFields" \in options.has
            THEN {options.mergeFields[i] : i \in 1..Len(options.mergeFields)}
            ELSE DOMAIN new
    IN  IF IsMerge(options)
        THEN [exists |-> TRUE,
              data |-> [f \in DOMAIN kept \cup mergeKeys |->
                          IF f \in mergeKeys THEN new[f] ELSE kept[f]]]
        ELSE [exists |-> TRUE, data |-> new]

\* a set call the store accepts: storable data, not both merge and mergeFields,
\* and every merge field present in the data
SetAccepted(call) ==
    /\ Storable(call.data)
    /\ ~({"merge", "mergeFields"} \subseteq call.options.has)
    /\ "mergeFields" \in call.options.has =>
          \A i \in 1..Len(call.options.mergeFields) :
              call.options.mergeFields[i] \in DOMAIN call.data

PendingCall == cop.calls[Len(cop.calls)]

\* no write has been completed on the document
NoWrite == [op |-> "none", h |-> 0, data |-> NoData, options |-> NoOptions]

\* what a completed write leaves in the history: the handle call it came from
WriteOf(call) ==
    [op |-> call.op, h |-> call.h, data |-> call.data, options |-> call.options]

\* the store completes the pending add: a document under a free id
AddResolves(newId) ==
    /\ cop.phase = "pending"
    /\ PendingCall.method = "add"
    /\ Storable(PendingCall.data)
    /\ ~store[Append(PendingCall.on, newId)].exists
    /\ store' = [store EXCEPT ![Append(PendingCall.on, newId)] =
                    [exists |-> TRUE, data |-> StoredData(PendingCall.data)]]
    /\ written' = [written EXCEPT ![Append(PendingCall.on, newId)] = WriteOf(cop)]
    /\ cop' = Settled([ok |-> TRUE,
                       value |-> [kind |-> "docRef", path |-> Append(PendingCall.on, newId)]])
    /\ UNCHANGED <<handles, constructed, qvars, uvars>>

SetResolves ==
    /\ cop.phase = "pending"
    /\ PendingCall.method = "set"
    /\ SetAccepted(PendingCall)
    /\ store' = [store EXCEPT ![PendingCall.on] =
                    DocumentAfterSet(@, PendingCall.data, PendingCall.options)]
    /\ written' = [written EXCEPT ![PendingCall.on] = WriteOf(cop)]
    /\ cop' = Settled([ok |-> TRUE, value |-> WriteResult])
    /\ UNCHANGED <<handles, constructed, qvars, uvars>>

DeleteResolves ==
    /\ cop.phase = "pending"
    /\ PendingCall.method = "delete"
    /\ store' = [store EXCEPT ![PendingCall.on] = NoDocument]
    /\ written' = [written EXCEPT ![PendingCall.on] = WriteOf(cop)]
    /\ cop' = Settled([ok |-> TRUE, value |-> WriteResult])
    /\ UNCHANGED <<handles, constructed, qvars, uvars>>

\* the store answers the pending fetch with the document's snapshot
GetResolves ==
    /\ cop.phase = "pending"
    /\ PendingCall.method = "get"
    /\ cop' = Settled([ok |-> TRUE, value |-> store[PendingCall.on]])
    /\ UNCHANGED <<handles, constructed, store, written, qvars, uvars>>

\* the pending store call fails
StoreRejects(err) ==
    /\ cop.phase = "pending"
    /\ cop' = Settled([ok |-> FALSE, value |-> err])
    /\ UNCHANGED <<handles, constructed, store, written, qvars, uvars>>

DocPaths == { <<TheCollectionId, id>> : id \in DocIds }

CStart(schema) ==
    /\ handles = <<NewCollectionRef(TheFirestore, TheCollectionId, schema, NoParent)>>
    /\ constructed = <<ConstructorRun(BaseClass, TheFirestore, TheCollectionId, schema,
                                      NoParent)>>
    /\ store = [p \in DocPaths |-> NoDocument]
    /\ written = [p \in DocPaths |-> NoWrite]
    /\ cop = NoCollectionCall

CInit ==
    /\ \E schema \in Schemas : CStart(schema)
    /\ QNone
    /\ UNone

CNext ==
    \/ \E h \in 1..Len(handles), data \in Payloads : CollectionRef_add(h, data)
    \/ \E h \in 1..Len(handles), id \in DocIds, data \in Payloads, o \in SetOptionsGiven :
          CollectionRef_set(h, id, data, o)
    \/ \E h \in 1..Len(handles), id \in DocIds : CollectionRef_delete(h, id)
    \/ \E h \in 1..Len(handles), id \in DocIds : CollectionRef_get(h, id)
    \/ \E id \in DocIds : AddResolves(id)
    \/ SetResolves
    \/ DeleteResolves
    \/ GetResolves
    \/ \E e \in StoreErrors : StoreRejects(e)

SpecCollection == CInit /\ [][CNext]_vars

(***************************************************************************)
(* AdminBaseCollectionRef.subCollection                                    *)
(***************************************************************************)
\* { fields: { value: {} } }: the schema registered for `replies`
RepliesSchema ==
    [defined |-> TRUE, fields |-> [value |-> [defaultValue |-> Undefined]]]

\* the schema registered for `comments`, with a default and a sub-collection table
\* of its own
CommentsSchema ==
    [defined |-> TRUE,
     fields |-> [value |-> [defaultValue |-> Undefined],
                 status |-> [defaultValue |-> "open"]],
     subCollections |->
        [replies |-> [schema |-> RepliesSchema, collectionClass |-> "RepliesCollection"]]]

\* a schema with a sub-collection table: `comments` has a schema and a class,
\* `likes` a class and no schema, `drafts` a schema and no class
SchemaWithSubCollections ==
    [defined |-> TRUE,
     fields |-> [name |-> [defaultValue |-> Undefined]],
     subCollections |->
        [comments |-> [schema |-> CommentsSchema, collectionClass |-> "CommentsCollection"],
         likes |-> [collectionClass |-> "LikesCollection"],
         drafts |-> [schema |-> RepliesSchema, collectionClass |-> Undefined]]]

ParentSchemas == {NoSchema, SchemaDefaults, SchemaWithSubCollections}

\* the names subCollection is called with; `constructor` is no key of any table
\* but a member every plain object inherits
SubCollectionIds == {"comments", "likes", "drafts", "replies", "missing", "constructor"}

InheritedNames == {"constructor"}

\* the SubCollectionClass and subSchema arguments callers pass
SubCollectionClasses == {"CommentsCollection", "OtherCollection"}

\* a schema handed over as the subSchema argument: a default and a table of its own
GivenSubSchema ==
    [defined |-> TRUE,
     fields |-> [status |-> [defaultValue |-> "draft"]],
     subCollections |->
        [replies |-> [schema |-> RepliesSchema, collectionClass |-> "RepliesCollection"]]]

SubSchemasGiven == {NoSchema, GivenSubSchema}

\* a parent document reference handed to the constructor by the caller
TheParentDoc == [defined |-> TRUE, path |-> <<"parents", "p1">>]

ParentsGiven == {NoParent, TheParentDoc}

\* this.schema?.subCollections is set
HasSubCollections(schema) ==
    /\ schema.defined
    /\ "subCollections" \in DOMAIN schema

\* table[name] in JavaScript: the table's own entry, else what a plain object
\* inherits under that name (a function, which has no schema and no
\* collectionClass), else undefined
TableLookup(table, name) ==
    IF name \in DOMAIN table THEN [found |-> TRUE, def |-> table[name]]
    ELSE IF name \in InheritedNames THEN [found |-> TRUE, def |-> [inherited |-> name]]
    ELSE [found |-> FALSE]

\* the subSchema argument stands in when the entry has no schema,
\* `subCollectionDef.schema ?? subSchema`
SchemaOf_argumentFallback(subCollectionDef, subSchema) ==
    IF "schema" \in DOMAIN subCollectionDef THEN subCollectionDef.schema ELSE subSchema

\* the schema argument of the constructor call: subCollectionDef.schema, undefined
\* when the entry has none; the subSchema argument is not looked at
SchemaOf(subCollectionDef, subSchema) ==
    IF "schema" \in DOMAIN subCollectionDef THEN subCollectionDef.schema ELSE NoSchema

\* this.ref.id: the last segment of the collection's path
RefId(ref) == ref.path[Len(ref.path)]

NotFoundInSchema(subCollectionId, collectionId) ==
    [text |-> "Sub-collection not found in schema for collection",
     subCollection |-> subCollectionId, collection |-> collectionId]

ClassDefinitionMissing(subCollectionId, collectionId) ==
    [text |-> "Collection class definition missing for sub-collection in schema for collection",
     subCollection |-> subCollectionId, collection |-> collectionId]

\* the constructor named by the SubCollectionClass argument is used
ResolvedSubCollectionClass_fromArgument(subCollectionDef, SubCollectionClass) ==
    SubCollectionClass

\* const ResolvedSubCollectionClass = subCollectionDef.collectionClass
ResolvedSubCollectionClass(subCollectionDef, SubCollectionClass) ==
    Lookup(subCollectionDef, "collectionClass")

\* only the table is checked, not the entry's class
ConfigurationError_tableOnly(this, subCollectionId) ==
    IF \/ ~HasSubCollections(this.schema)
       \/ ~TableLookup(this.schema.subCollections, subCollectionId).found
    THEN [thrown |-> TRUE, error |-> NotFoundInSchema(subCollectionId, RefId(this.ref))]
    ELSE [thrown |-> FALSE]

\* steps 1 and 2 of subCollection: the two checks that throw
ConfigurationError(this, subCollectionId) ==
    IF \/ ~HasSubCollections(this.schema)
       \/ ~TableLookup(this.schema.subCollections, subCollectionId).found
    THEN [thrown |-> TRUE, error |-> NotFoundInSchema(subCollectionId, RefId(this.ref))]
    ELSE IF Lookup(TableLookup(this.schema.subCollections, subCollectionId).def,
                   "collectionClass") = Undefined
    THEN [thrown |-> TRUE, error |-> ClassDefinitionMissing(subCollectionId, RefId(this.ref))]
    ELSE [thrown |-> FALSE]

\* subCollection(parentId, subCollectionId, SubCollectionClass, subSchema?):
\* throws on a configuration error; otherwise resolves the parent document and
\* returns new ResolvedSubCollectionClass(firestore, subCollectionId, schema, parentDocRef).
\* `news` lists the constructor calls made, `lookups` the doc() calls made.
subCollection(h, parentId, subCollectionId, SubCollectionClass, subSchema) ==
    /\ h \in 1..Len(handles)
    /\ cop.phase # "pending"
    /\ LET this == handles[h]
           failure == ConfigurationError(this, subCollectionId)
           call == [op |-> "subCollection", h |-> h, id |-> parentId, data |-> NoData,
                    options |-> NoOptions, calls |-> <<>>, sentinelCalls |-> 0,
                    reply |-> NoReply, name |-> subCollectionId,
                    classArg |-> SubCollectionClass, subSchema |-> subSchema]
       IN  IF failure.thrown
           THEN /\ cop' = [f \in DOMAIN call \cup {"lookups", "news", "phase", "result"} |->
                             CASE f = "lookups" -> <<>>
                               [] f = "news" -> <<>>
                               [] f = "phase" -> "threw"
                               [] f = "result" -> [kind |-> "error", error |-> failure.error]
                               [] OTHER -> call[f]]
                /\ UNCHANGED <<handles, constructed>>
           ELSE LET subCollectionDef == TableLookup(this.schema.subCollections,
                                                   subCollectionId).def
                    class == ResolvedSubCollectionClass(subCollectionDef, SubCollectionClass)
                    parentDocRef == doc(this, parentId)
                    new == Len(handles) + 1
                IN  /\ Len(handles) < MaxHandles
                    /\ handles' = Append(handles,
                                     NewCollectionRef(this.firestore, subCollectionId,
                                                      SchemaOf(subCollectionDef, subSchema),
                                                      parentDocRef))
                    /\ constructed' = Append(constructed,
                                         ConstructorRun(class, this.firestore, subCollectionId,
                                                        SchemaOf(subCollectionDef, subSchema),
                                                        parentDocRef))
                    /\ cop' = [f \in DOMAIN call \cup {"lookups", "news", "phase", "result"} |->
                                 CASE f = "lookups" -> <<parentId>>
                                   [] f = "news" -> <<[class |-> class, handle |-> new]>>
                                   [] f = "phase" -> "returned"
                                   [] f = "result" -> [kind |-> "handle", handle |-> new]
                                   [] OTHER -> call[f]]
    /\ UNCHANGED <<store, written, qvars, uvars>>

\* the document paths under a collection path, for the sub-collections of the schemas above
PathsUnder(root) ==
    { root \o tail : tail \in
        { <<id>> : id \in DocIds }
          \cup { <<p, "comments", id>> : p \in DocIds, id \in DocIds }
          \cup { <<p, "likes", id>> : p \in DocIds, id \in DocIds }
          \cup { <<p, "comments", q, "replies", id>> : p \in DocIds, q \in DocIds,
                                                        id \in DocIds } }

\* the payloads and options the handles of SpecSubCollection are called with
SubPayloads == {Payload(Absent, Absent)}

SubSetOptions == {NoOptions, MergeTrue}

SStart(schema, parentRef) ==
    /\ handles = <<NewCollectionRef(TheFirestore, TheCollectionId, schema, parentRef)>>
    /\ constructed = <<ConstructorRun(BaseClass, TheFirestore, TheCollectionId, schema,
                                      parentRef)>>
    /\ store = [p \in PathsUnder(handles[1].ref.path) |-> NoDocument]
    /\ written = [p \in PathsUnder(handles[1].ref.path) |-> NoWrite]
    /\ cop = NoCollectionCall

SInit ==
    /\ \E schema \in ParentSchemas, parentRef \in ParentsGiven : SStart(schema, parentRef)
    /\ QNone
    /\ UNone

SNext ==
    \/ \E h \in 1..Len(handles), parentId \in DocIds, name \in SubCollectionIds,
          class \in SubCollectionClasses, subSchema \in SubSchemasGiven :
          subCollection(h, parentId, name, class, subSchema)
    \/ \E h \in 1..Len(handles), data \in SubPayloads : CollectionRef_add(h, data)
    \/ \E h \in 1..Len(handles), id \in DocIds : CollectionRef_get(h, id)
    \/ \E id \in DocIds : AddResolves(id)
    \/ GetResolves
    \/ \E e \in StoreErrors : StoreRejects(e)

SpecSubCollection == SInit /\ [][SNext]_vars

(***************************************************************************)
(* AdminBaseUpdateBuilder                                                  *)
(***************************************************************************)
TheDocRef == "docRef"

UpdatePaths == {"count", "tags"}

\* a literal value handed to _set
Literal(v) == [literal |-> v]

LiteralValues == {Literal("1"), Literal("2")}

IncrementDeltas == {"1", "2"}

ArrayElements == { <<"a", "b">> }

UpdateErrors == {"updateError"}

\* AdminFieldValue.increment(n), .arrayUnion(...elements), .arrayRemove(...elements),
\* .serverTimestamp(), .delete(): the sentinel returned, with the arguments received
FieldValue(constructor, args) ==
    [sentinel |-> constructor, args |-> args]

NoUpdateCall ==
    [this |-> 0, method |-> "none", fieldPath |-> "none", given |-> <<>>, returned |-> 0,
     fieldValueCalls |-> <<>>]

\* the origin of an instance made by the constructor, not by an operation-adding call
ConstructedUpdateBuilder == [this |-> 0, fieldPath |-> "none", value |-> Literal("none")]

NoCommit ==
    [op |-> "none", this |-> 0, calls |-> <<>>, fieldValueCalls |-> <<>>, warnings |-> 0,
     phase |-> "idle", reply |-> NoReply, result |-> [kind |-> "none"]]

\* constructor(docRef): _updateData = {}
NewUpdateBuilder(docRef) ==
    [_docRef |-> docRef, _updateData |-> [p \in {} |-> Literal("none")]]

\* a path that already has an entry keeps it
WithField_keepFirst(updateData, fieldPath, value) ==
    [p \in DOMAIN updateData \cup {fieldPath} |->
        IF p \in DOMAIN updateData THEN updateData[p] ELSE value]

\* { ...this._updateData, [fieldPath]: value }
WithField(updateData, fieldPath, value) ==
    [p \in DOMAIN updateData \cup {fieldPath} |->
        IF p = fieldPath THEN value ELSE updateData[p]]

\* the receiver's own map is written and the receiver is returned
SetOn_inPlace(b, method, fieldPath, given, value, fieldValueCalls) ==
    /\ b \in 1..Len(ubuilders)
    /\ ubuilders' = [ubuilders EXCEPT
                        ![b]._updateData = WithField(@, fieldPath, value)]
    /\ ucall' = [this |-> b, method |-> method, fieldPath |-> fieldPath, given |-> given,
                 returned |-> b, fieldValueCalls |-> fieldValueCalls]
    /\ UNCHANGED <<uorigin, uupdates, uop, qvars, cvars>>

\* _set(fieldPath, value): a clone of this with the field written in a fresh map;
\* `method`, `given` and `fieldValueCalls` say which public helper called it, the
\* arguments that helper was given after the path, and the sentinel constructors
\* it called first
SetOn(b, method, fieldPath, given, value, fieldValueCalls) ==
    /\ b \in 1..Len(ubuilders)
    /\ ubuilders' = Append(ubuilders,
                       [_docRef |-> ubuilders[b]._docRef,
                        _updateData |-> WithField(ubuilders[b]._updateData, fieldPath, value)])
    /\ ucall' = [this |-> b, method |-> method, fieldPath |-> fieldPath, given |-> given,
                 returned |-> Len(ubuilders) + 1, fieldValueCalls |-> fieldValueCalls]
    /\ uorigin' = Append(uorigin, [this |-> b, fieldPath |-> fieldPath, value |-> value])
    /\ UNCHANGED <<uupdates, uop, qvars, cvars>>

_set(b, fieldPath, value) ==
    SetOn(b, "_set", fieldPath, <<value>>, value, <<>>)

\* _increment(fieldPath, value): AdminFieldValue.increment(value)
_increment(b, fieldPath, value) ==
    SetOn(b, "_increment", fieldPath, <<value>>, FieldValue("increment", <<value>>),
          <<[constructor |-> "increment", args |-> <<value>>]>>)

\* the array is handed over as one argument, AdminFieldValue.arrayUnion(values)
_arrayUnion_notSpread(b, fieldPath, values) ==
    SetOn(b, "_arrayUnion", fieldPath, <<values>>, FieldValue("arrayUnion", <<values>>),
          <<[constructor |-> "arrayUnion", args |-> <<values>>]>>)

\* _arrayUnion(fieldPath, values): AdminFieldValue.arrayUnion(...values)
_arrayUnion(b, fieldPath, values) ==
    SetOn(b, "_arrayUnion", fieldPath, <<values>>, FieldValue("arrayUnion", values),
          <<[constructor |-> "arrayUnion", args |-> values]>>)

\* _arrayRemove(fieldPath, values): AdminFieldValue.arrayRemove(...values)
_arrayRemove(b, fieldPath, values) ==
    SetOn(b, "_arrayRemove", fieldPath, <<values>>, FieldValue("arrayRemove", values),
          <<[constructor |-> "arrayRemove", args |-> values]>>)

_serverTimestamp(b, fieldPath) ==
    SetOn(b, "_serverTimestamp", fieldPath, <<>>, FieldValue("serverTimestamp", <<>>),
          <<[constructor |-> "serverTimestamp", args |-> <<>>]>>)

_deleteField(b, fieldPath) ==
    SetOn(b, "_deleteField", fieldPath, <<>>, FieldValue("delete", <<>>),
          <<[constructor |-> "delete", args |-> <<>>]>>)

\* the emptiness test is missing: every commit goes to the store
NothingToCommit_never(this) ==
    FALSE

\* Object.keys(this._updateData).length === 0
NothingToCommit(this) ==
    DOMAIN this._updateData = {}

\* the value a commit with nothing to write resolves to, `{} as FirebaseFirestore.WriteResult`:
\* an object with no fields, returned as the store's write outcome type
PlaceholderResult == [kind |-> "writeResult", fields |-> {}]

\* one update call per recorded field, each with that field alone
UpdateCalls_perField(this) ==
    LET paths == DOMAIN this._updateData
        Order == CHOOSE seq \in [1..Cardinality(paths) -> paths] :
                     \A i, j \in DOMAIN seq : i # j => seq[i] # seq[j]
    IN  [i \in 1..Cardinality(paths) |->
            [method |-> "update", on |-> this._docRef,
             data |-> [p \in {Order[i]} |-> this._updateData[p]]]]

\* the store calls of a commit that has changes: this._docRef.update(this._updateData)
UpdateCalls(this) ==
    <<[method |-> "update", on |-> this._docRef, data |-> this._updateData]>>

\* the line `this._updateData = {}` after the update call is live
commit_clearing(b) ==
    /\ b \in 1..Len(ubuilders)
    /\ uop.phase # "pending"
    /\ NothingToCommit(ubuilders[b]) \/ uupdates < MaxUpdateCalls
    /\ uop' = IF NothingToCommit(ubuilders[b])
              THEN [op |-> "commit", this |-> b, calls |-> <<>>, fieldValueCalls |-> <<>>,
                    warnings |-> 1, phase |-> "resolved", reply |-> NoReply,
                    result |-> PlaceholderResult]
              ELSE [op |-> "commit", this |-> b, calls |-> UpdateCalls(ubuilders[b]),
                    fieldValueCalls |-> <<>>, warnings |-> 0, phase |-> "pending",
                    reply |-> NoReply, result |-> [kind |-> "none"]]
    /\ uupdates' = uupdates + Len(uop'.calls)
    /\ ubuilders' = [ubuilders EXCEPT ![b]._updateData = [p \in {} |-> Literal("none")]]
    /\ UNCHANGED <<ucall, uorigin, qvars, cvars>>

\* commit(): with no changes, warn and resolve to the placeholder without a store
\* call; otherwise return this._docRef.update(this._updateData)
commit(b) ==
    /\ b \in 1..Len(ubuilders)
    /\ uop.phase # "pending"
    /\ NothingToCommit(ubuilders[b]) \/ uupdates < MaxUpdateCalls
    /\ uop' = IF NothingToCommit(ubuilders[b])
              THEN [op |-> "commit", this |-> b, calls |-> <<>>, fieldValueCalls |-> <<>>,
                    warnings |-> 1, phase |-> "resolved", reply |-> NoReply,
                    result |-> PlaceholderResult]
              ELSE [op |-> "commit", this |-> b, calls |-> UpdateCalls(ubuilders[b]),
                    fieldValueCalls |-> <<>>, warnings |-> 0, phase |-> "pending",
                    reply |-> NoReply, result |-> [kind |-> "none"]]
    /\ uupdates' = uupdates + Len(uop'.calls)
    /\ UNCHANGED <<ubuilders, ucall, uorigin, qvars, cvars>>

\* the store completes the pending update; commit returned the store's promise
UpdateResolves ==
    /\ uop.phase = "pending"
    /\ uop' = [uop EXCEPT !.phase = "resolved",
                          !.reply = [ok |-> TRUE, value |-> WriteResult],
                          !.result = WriteResult]
    /\ UNCHANGED <<ubuilders, ucall, uorigin, uupdates, qvars, cvars>>

UpdateRejects(err) ==
    /\ uop.phase = "pending"
    /\ uop' = [uop EXCEPT !.phase = "rejected",
                          !.reply = [ok |-> FALSE, value |-> err],
                          !.result = [kind |-> "error", error |-> err]]
    /\ UNCHANGED <<ubuilders, ucall, uorigin, uupdates, qvars, cvars>>

UStart ==
    /\ ubuilders = <<NewUpdateBuilder(TheDocRef)>>
    /\ ucall = NoUpdateCall
    /\ uorigin = <<ConstructedUpdateBuilder>>
    /\ uupdates = 0
    /\ uop = NoCommit

UInit ==
    /\ UStart
    /\ QNone
    /\ CNone

\* the instances a caller may still derive from, while fewer than max instances exist
UpdateReceivers(max) ==
    IF Len(ubuilders) < max THEN 1..Len(ubuilders) ELSE {}

UNext ==
    \/ \E b \in UpdateReceivers(MaxUpdateBuilders), p \in UpdatePaths, v \in LiteralValues :
          _set(b, p, v)
    \/ \E b \in UpdateReceivers(MaxUpdateBuilders), p \in UpdatePaths, n \in IncrementDeltas :
          _increment(b, p, n)
    \/ \E b \in UpdateReceivers(MaxUpdateBuilders), p \in UpdatePaths, e \in ArrayElements :
          _arrayUnion(b, p, e)
    \/ \E b \in UpdateReceivers(MaxUpdateBuilders), p \in UpdatePaths, e \in ArrayElements :
          _arrayRemove(b, p, e)
    \/ \E b \in UpdateReceivers(MaxUpdateBuilders), p \in UpdatePaths : _serverTimestamp(b, p)
    \/ \E b \in UpdateReceivers(MaxUpdateBuilders), p \in UpdatePaths : _deleteField(b, p)
    \/ \E b \in 1..Len(ubuilders) : commit(b)
    \/ UpdateResolves
    \/ \E e \in UpdateErrors : UpdateRejects(e)

SpecUpdate == UInit /\ [][UNext]_vars

(***************************************************************************)
(* The three classes side by side: every operation that calls the store    *)
(***************************************************************************)
AInit ==
    /\ QStart
    /\ CStart(SchemaDefaults)
    /\ UStart

ANext ==
    \/ \E b \in 1..Len(qbuilders) : getSnapshot(b)
    \/ \E b \in 1..Len(qbuilders) : QueryBuilder_get(b)
    \/ \E s \in Snapshots : FetchResolves(s)
    \/ \E e \in FetchErrors : FetchRejects(e)
    \/ \E h \in 1..Len(handles), data \in SubPayloads : CollectionRef_add(h, data)
    \/ \E h \in 1..Len(handles), id \in DocIds, data \in SubPayloads, o \in SubSetOptions :
          CollectionRef_set(h, id, data, o)
    \/ \E h \in 1..Len(handles), id \in DocIds : CollectionRef_delete(h, id)
    \/ \E h \in 1..Len(handles), id \in DocIds : CollectionRef_get(h, id)
    \/ \E id \in DocIds : AddResolves(id)
    \/ SetResolves
    \/ DeleteResolves
    \/ GetResolves
    \/ \E e \in StoreErrors : StoreRejects(e)
    \/ \E b \in UpdateReceivers(MaxCommitBuilders), p \in UpdatePaths : _serverTimestamp(b, p)
    \/ \E b \in 1..Len(ubuilders) : commit(b)
    \/ UpdateResolves
    \/ \E e \in UpdateErrors : UpdateRejects(e)

SpecStoreCalls == AInit /\ [][ANext]_vars

(***************************************************************************)
(* Properties of the query builder                                         *)
(***************************************************************************)
ConstraintTypes ==
    {"where", "orderBy", "limit", "limitToLast", "startAt", "startAfter", "endAt", "endBefore"}

Defs(b) == qbuilders[b].constraintDefinitions

\* a native call is the one a definition stands for: same method, the recorded arguments
CallMatches(call, def) ==
    /\ call.method = def.type
    /\ CASE def.type = "where" ->
              /\ Len(call.args) = 3
              /\ call.args[1] = def.fieldPath
              /\ call.args[2] = def.opStr
              /\ call.args[3] = def.value
         [] def.type = "orderBy" ->
              /\ Len(call.args) = 2
              /\ call.args[1] = def.fieldPath
              /\ call.args[2] = def.directionStr
         [] def.type \in {"limit", "limitToLast"} ->
              /\ Len(call.args) = 1
              /\ call.args[1] = def.limitCount
         [] def.type \in {"startAt", "startAfter", "endAt", "endBefore"} ->
              /\ Len(call.args) = 1 + Len(def.fieldValues)
              /\ call.args[1] = def.snapshotOrFieldValue
              /\ \A k \in 1..Len(def.fieldValues) : call.args[k + 1] = def.fieldValues[k]
         [] OTHER -> FALSE

\* C1: every constraint-adding call returns an instance distinct from its receiver,
\* whose definitions are the receiver's followed by the one new definition, and
\* leaves the definitions of the receiver (and of every existing instance) as they were.
C1_QueryBuilderImmutable ==
    [][qcall' # qcall =>
         /\ qcall'.this \in 1..Len(qbuilders)
         /\ qcall'.returned # qcall'.this
         /\ qcall'.returned \notin 1..Len(qbuilders)
         /\ qcall'.returned \in 1..Len(qbuilders')
         /\ qcall'.definition.type \in ConstraintTypes
         /\ qbuilders'[qcall'.returned].constraintDefinitions
              = Append(Defs(qcall'.this), qcall'.definition)
         /\ \A b \in 1..Len(qbuilders) :
              qbuilders'[b].constraintDefinitions = Defs(b)]_vars

\* a cursor call made on an instance that already holds definitions
C1_Witness ==
    /\ qcall.returned = 3
    /\ qcall.this = 2
    /\ qcall.definition.type = "endBefore"
    /\ Len(Defs(2)) = 1
    /\ Len(Defs(3)) = 2

\* C2: a realizing call makes one native call per definition of its builder, in
\* insertion order, with the recorded arguments, the first on the collection
\* reference and each next one on the value the previous call returned; with no
\* definitions it makes none and the query is the collection reference itself.
C2_OrderPreserved ==
    qop.op # "none" =>
        LET defs == Defs(qop.this)
            n == Len(defs)
        IN  /\ Len(qop.calls) = n
            /\ \A i \in 1..n :
                 /\ CallMatches(qop.calls[i], defs[i])
                 /\ qop.calls[i].recv =
                      (IF i = 1 THEN CollectionQuery ELSE qop.calls[i - 1].ret)
                 /\ qop.calls[i].ret =
                      NativeQuery(qop.calls[i].recv, qop.calls[i].method, qop.calls[i].args)
            /\ qop.query = (IF n = 0 THEN CollectionQuery ELSE qop.calls[n].ret)
            /\ qop.op = "buildQuery" => qop.result = qop.query

\* buildQuery on a chain of two definitions, the second a cursor with extra values
C2_Witness ==
    /\ qop.op = "buildQuery"
    /\ Len(qop.calls) = 2
    /\ qop.calls[1].method = "where"
    /\ qop.calls[2].method = "startAfter"
    /\ Len(qop.calls[2].args) = 3
    /\ qop.calls[2].recv = qop.calls[1].ret

\* the definitions added on the way from the first instance to instance b
RECURSIVE PathDefs(_)
PathDefs(b) ==
    IF qorigin[b].this = 0 THEN <<>>
    ELSE Append(PathDefs(qorigin[b].this), qorigin[b].definition)

\* C3: whatever the interleaving of constraint-adding and realizing calls, every
\* instance holds the definitions of the prefix it was derived from followed by
\* its own chain's definitions only, and a realizing call replays exactly the
\* definitions of its own chain.
C3_BranchesIndependent ==
    /\ \A b \in 1..Len(qbuilders) : Defs(b) = PathDefs(b)
    /\ qop.op # "none" =>
         /\ Len(qop.calls) = Len(PathDefs(qop.this))
         /\ \A i \in 1..Len(qop.calls) : CallMatches(qop.calls[i], PathDefs(qop.this)[i])

\* two branches derived from one non-empty prefix; one was realized with a fetch
\* while the other already existed, and the fetch has resolved
C3_Witness ==
    \E p, x, y \in 1..Len(qbuilders) :
        /\ x # y
        /\ qorigin[x].this = p
        /\ qorigin[y].this = p
        /\ Len(Defs(p)) = 1
        /\ qorigin[x].definition # qorigin[y].definition
        /\ qop.op = "getSnapshot"
        /\ qop.this = x
        /\ qop.phase = "resolved"

\* the query a realizing call ends with: what its last native call returned
RealizedQuery ==
    IF Len(qop.calls) = 0 THEN CollectionQuery ELSE qop.calls[Len(qop.calls)].ret

\* C17: getSnapshot() and get() realize the query (one native call per definition)
\* and then make exactly one fetch, on the realized query; getSnapshot() resolves
\* to the snapshot that fetch returned.
C17_OneFetchOnRealizedQuery ==
    qop.op \in {"getSnapshot", "get"} =>
        /\ Len(qop.calls) = Len(Defs(qop.this))
        /\ \A i \in 1..Len(qop.calls) : CallMatches(qop.calls[i], Defs(qop.this)[i])
        /\ qop.fetches = <<RealizedQuery>>
        /\ (qop.op = "getSnapshot" /\ qop.phase = "resolved") =>
              (qop.reply.ok /\ qop.result = qop.reply.value)

\* getSnapshot() on a chain of two definitions resolved with a snapshot of two items
C17_Witness ==
    /\ qop.op = "getSnapshot"
    /\ Len(Defs(qop.this)) = 2
    /\ Len(qop.fetches) = 1
    /\ Len(qop.fetches[1].applied) = 2
    /\ qop.phase = "resolved"
    /\ qop.result = <<DocA, DocB>>

\* C22: a constraint-adding call makes no native query call and no fetch; native
\* calls and fetches are made only in a step that is a buildQuery, getSnapshot or
\* get call, and a buildQuery call makes no fetch.
C22_DeferredRealization ==
    [][/\ qcall' # qcall => qop' = qop
       /\ (qop'.calls # qop.calls \/ qop'.fetches # qop.fetches) =>
             /\ qcall' = qcall
             /\ qop'.op \in {"buildQuery", "getSnapshot", "get"}
             /\ qop'.phase \in {"returned", "pending"}
       /\ qop'.op = "buildQuery" => qop'.fetches = <<>>]_vars

\* a chain of two constraints was built and no native call or fetch has been made
C22_Witness ==
    /\ Len(qbuilders) = 3
    /\ Len(Defs(3)) = 2
    /\ qop = NoOp

\* the cursor methods
CursorMethods == {"startAt", "startAfter", "endAt", "endBefore"}

\* C23: when a builder is realized, the i-th native call made for it belongs to
\* the i-th definition of its chain; for a cursor definition recorded with anchor a
\* and n extra values the native call is the cursor method of the same name with
\* exactly 1 + n arguments, a first and the extra values after it in their given
\* order (a alone when n = 0), and a snapshot anchor followed by extra values is
\* passed on like any other, the call returning normally.
C23_CursorArgsPassThrough ==
    qop.op \in {"buildQuery", "getSnapshot", "get"} =>
       LET chain == Defs(qop.this)
       IN  /\ qop.phase # "threw"
           /\ Len(qop.calls) = Len(chain)
           /\ \A i \in 1..Len(chain) :
                 LET d == chain[i]
                 IN  d.type \in CursorMethods =>
                        /\ qop.calls[i].method = d.type
                        /\ Len(qop.calls[i].args) = 1 + Len(d.fieldValues)
                        /\ qop.calls[i].args[1] = d.snapshotOrFieldValue
                        /\ \A j \in 1..Len(d.fieldValues) :
                              qop.calls[i].args[j + 1] = d.fieldValues[j]

\* buildQuery returned for startAfter(snapshot, "v2") followed by endBefore("v1", "v2", "v3")
C23_Witness ==
    /\ qop.op = "buildQuery"
    /\ qop.phase = "returned"
    /\ Len(qop.calls) = 2
    /\ qop.calls[1] = [recv |-> CollectionQuery, method |-> "startAfter",
                       args |-> <<"snap", "v2">>,
                       ret |-> NativeQuery(CollectionQuery, "startAfter", <<"snap", "v2">>)]
    /\ qop.calls[2].method = "endBefore"
    /\ qop.calls[2].args = <<"v1", "v2", "v3">>

\* C29: every definition of every builder has one of the eight kinds the switch
\* of buildQuery handles, so no realizing call ends with the 'Unsupported admin
\* constraint type' error: buildQuery never throws and getSnapshot/get reject only
\* with the store's fetch error.
C29_OnlySupportedKinds ==
    /\ \A b \in 1..Len(qbuilders) :
          \A i \in 1..Len(Defs(b)) :
             /\ Defs(b)[i].type \in ConstraintTypes
             /\ NativeMethod(Defs(b)[i]) # UnsupportedConstraint
    /\ qop.phase # "threw"
    /\ qop.op = "buildQuery" => qop.phase = "returned"
    /\ qop.phase = "rejected" => (~qop.reply.ok /\ qop.reply.value \in FetchErrors)

\* buildQuery returned for a chain holding limitToLast and a cursor
C29_Witness ==
    /\ qop.op = "buildQuery"
    /\ qop.phase = "returned"
    /\ Len(Defs(qop.this)) = 2
    /\ Defs(qop.this)[1].type = "limitToLast"
    /\ Defs(qop.this)[2].type = "endAt"
    /\ Len(qop.calls) = 2

\* C18: get() resolves to a sequence with one element per item of the snapshot, in
\* the snapshot's order, each the item's data; an empty snapshot gives the empty
\* sequence.
C18_GetMapsDocsInOrder ==
    (qop.op = "get" /\ qop.phase = "resolved") =>
        /\ qop.reply.ok
        /\ qop.result \in Seq({DocA.data, DocB.data})
        /\ Len(qop.result) = Len(qop.reply.value)
        /\ \A i \in 1..Len(qop.reply.value) : qop.result[i] = qop.reply.value[i].data
        /\ qop.reply.value = <<>> => qop.result = <<>>

\* get() resolved with the data of two items, in the snapshot's order
C18_Witness ==
    /\ qop.op = "get"
    /\ qop.phase = "resolved"
    /\ qop.reply.value = <<DocA, DocB>>
    /\ qop.result = <<DocA.data, DocB.data>>


(***************************************************************************)
(* Properties of the collection handle                                     *)
(***************************************************************************)
TheSchema == handles[cop.h].schema

\* the one store call of the last handle call, and the payload it carried
TheCall == cop.calls[1]

\* the value a default stands for: the sentinel for the marker, else the literal
DefaultValueOf(fieldDef) ==
    IF fieldDef.defaultValue = ServerTimestampMarker THEN ServerTimestampSentinel
    ELSE fieldDef.defaultValue

\* the schema fields with a defined default that the payload lacks, where `lacks`
\* is either "has no such key" or "has no such key, or holds undefined under it"
DefaultedMissingKey(schema, data) ==
    IF ~schema.defined THEN {}
    ELSE { f \in DOMAIN schema.fields :
             schema.fields[f].defaultValue # Undefined /\ f \notin DOMAIN data }

DefaultedUnset(schema, data) ==
    IF ~schema.defined THEN {}
    ELSE { f \in DOMAIN schema.fields :
             /\ schema.fields[f].defaultValue # Undefined
             /\ (f \notin DOMAIN data \/ data[f] = Undefined) }

\* the payload plus the default of every field of `injected`
WithDefaults(schema, data, injected) ==
    [f \in DOMAIN data \cup injected |->
        IF f \in injected THEN DefaultValueOf(schema.fields[f]) ELSE data[f]]

\* C4 as stated: add() creates the caller's payload plus the default of every
\* defaulted schema field whose key the payload does not have, nothing else
\* added, nothing removed or changed.
C4_AddInjectsForMissingKeys ==
    cop.op = "add" =>
        TheCall.data = WithDefaults(TheSchema, cop.data, DefaultedMissingKey(TheSchema, cop.data))

\* C4 amended: add() makes one create call whose payload is the caller's payload
\* plus the default of every defaulted schema field that the payload lacks or
\* holds as undefined; no other field is added, no other field is removed or
\* changed; with no schema the payload is written unchanged.
C4_AddInjectsDefaults ==
    cop.op = "add" =>
        /\ Len(cop.calls) = 1
        /\ TheCall.method = "add"
        /\ TheCall.data = WithDefaults(TheSchema, cop.data, DefaultedUnset(TheSchema, cop.data))
        /\ ~TheSchema.defined => TheCall.data = cop.data

\* add() of { name } under the schema with a literal and a timestamp default
C4_Witness ==
    /\ cop.op = "add"
    /\ TheSchema = SchemaDefaults
    /\ cop.data = Payload(Absent, Absent)
    /\ DOMAIN TheCall.data = {"name", "status", "createdAt"}
    /\ TheCall.data["status"] = "inactive"
    /\ TheCall.data["createdAt"] = ServerTimestampSentinel

\* add, or set without a merge request
WritesWhole ==
    \/ cop.op = "add"
    \/ /\ cop.op = "set"
       /\ ~(cop.options.given /\ "mergeFields" \in cop.options.has)
       /\ ~(cop.options.given /\ "merge" \in cop.options.has /\ cop.options.merge = "true")

\* C5 as stated: on add and non-merge set every field the payload has is written
\* with the caller's value.
C5_EveryPresentFieldKept ==
    WritesWhole => \A f \in DOMAIN cop.data : TheCall.data[f] = cop.data[f]

\* C5 amended: on add and non-merge set every field the payload has with a value
\* other than undefined (null, 0, false and the empty string included) is written
\* with the caller's value, not the schema default.
C5_SuppliedValuesKept ==
    WritesWhole =>
        \A f \in DOMAIN cop.data :
            cop.data[f] # Undefined => TheCall.data[f] = cop.data[f]

\* a non-merge set whose payload gives false for a field with a default
C5_Witness ==
    /\ cop.op = "set"
    /\ cop.options = MergeFalse
    /\ TheSchema = SchemaDefaults
    /\ cop.data = Payload(False, Absent)
    /\ TheCall.data["status"] = False
    /\ TheCall.data["createdAt"] = ServerTimestampSentinel

\* the schema fields whose default is the marker 'serverTimestamp'
MarkerFields(schema) ==
    IF ~schema.defined THEN {}
    ELSE { f \in DOMAIN schema.fields :
             schema.fields[f].defaultValue = ServerTimestampMarker }

\* C24 as stated: on add and non-merge set every marker-default field whose key
\* the payload does not have is written as the sentinel, the marker string is
\* never written, and the sentinel constructor is called once per such field and
\* not for a field whose key the payload has.
C24_SentinelOnlyForMissingKeys ==
    WritesWhole =>
        LET injected == { f \in MarkerFields(TheSchema) : f \notin DOMAIN cop.data }
        IN  /\ \A f \in injected : TheCall.data[f] = ServerTimestampSentinel
            /\ \A f \in DOMAIN TheCall.data : TheCall.data[f] # ServerTimestampMarker
            /\ cop.sentinelCalls = Cardinality(injected)

\* C24 amended: on add and non-merge set every marker-default field that the
\* payload lacks or holds as undefined is written as the sentinel, the marker
\* string is never written, the sentinel constructor is called once per such
\* field, and a marker-default field supplied with any other value keeps it.
C24_SentinelForUnsetFields ==
    WritesWhole =>
        LET injected == { f \in MarkerFields(TheSchema) :
                            f \notin DOMAIN cop.data \/ cop.data[f] = Undefined }
        IN  /\ \A f \in injected : TheCall.data[f] = ServerTimestampSentinel
            /\ \A f \in DOMAIN TheCall.data : TheCall.data[f] # ServerTimestampMarker
            /\ cop.sentinelCalls = Cardinality(injected)
            /\ \A f \in MarkerFields(TheSchema) \ injected : TheCall.data[f] = cop.data[f]

\* a non-merge set of { name } called the sentinel constructor once and wrote the sentinel
C24_Witness ==
    /\ cop.op = "set"
    /\ cop.options = NoOptions
    /\ TheSchema = SchemaDefaults
    /\ cop.data = Payload(Absent, Absent)
    /\ cop.sentinelCalls = 1
    /\ TheCall.data["createdAt"] = ServerTimestampSentinel

\* C27: after add(payload) or set(id, payload, options), merge or not, whatever
\* the schema, the caller's payload has the fields and values it had before the
\* call; the injected defaults are only in the value handed to the store.
C27_PayloadNotModified ==
    cop.op \in {"add", "set"} =>
        /\ cop.after = cop.data
        /\ DOMAIN cop.after = DOMAIN cop.data

\* an add that injected two defaults into what it wrote, the payload still { name }
C27_Witness ==
    /\ cop.op = "add"
    /\ TheSchema = SchemaDefaults
    /\ cop.data = Payload(Absent, Absent)
    /\ cop.after = Payload(Absent, Absent)
    /\ DOMAIN TheCall.data = {"name", "status", "createdAt"}
    /\ cop.phase = "resolved"

\* C30: on add and non-merge set, a payload field present with the value undefined
\* is written with the schema default when the schema defines one for it (the
\* sentinel for the marker), exactly as if its key were missing, whereas a field
\* supplied as null is written as null.
C30_UndefinedIsAbsent ==
    WritesWhole =>
        /\ \A f \in DOMAIN cop.data :
              /\ (/\ cop.data[f] = Undefined
                  /\ TheSchema.defined
                  /\ f \in DOMAIN TheSchema.fields
                  /\ TheSchema.fields[f].defaultValue # Undefined)
                    => TheCall.data[f] = DefaultValueOf(TheSchema.fields[f])
              /\ cop.data[f] = Null => TheCall.data[f] = Null
        /\ LET missing == [f \in {g \in DOMAIN cop.data : cop.data[g] # Undefined} |->
                             cop.data[f]]
           IN  \A f \in DefaultedUnset(TheSchema, cop.data) :
                  TheCall.data[f] = applyDefaults(handles[cop.h], missing).data[f]

\* an add of { name, status: undefined } wrote the literal default for status
C30_Witness ==
    /\ cop.op = "add"
    /\ TheSchema = SchemaDefaults
    /\ cop.data = Payload(Undefined, Absent)
    /\ TheCall.data["status"] = "inactive"
    /\ TheCall.data["createdAt"] = ServerTimestampSentinel

\* C6: a set whose options request a merge (merge flag true, or a field list)
\* makes one write call carrying exactly the caller's payload and the options as given.
C6_MergeSuppressesDefaults ==
    (/\ cop.op = "set"
     /\ cop.options.given
     /\ \/ ("merge" \in cop.options.has /\ cop.options.merge = "true")
        \/ "mergeFields" \in cop.options.has) =>
        /\ Len(cop.calls) = 1
        /\ TheCall.method = "set"
        /\ TheCall.data = cop.data
        /\ TheCall.options = cop.options
        /\ cop.sentinelCalls = 0

\* a merge by field list, under a schema whose defaults the payload lacks
C6_Witness ==
    /\ cop.op = "set"
    /\ cop.options = MergeFieldsStatus
    /\ TheSchema = SchemaDefaults
    /\ cop.data = Payload("active", Absent)
    /\ TheCall.data = cop.data

\* C7: a set whose options do not request a merge (absent, empty, or merge false
\* and no field list) makes one write call carrying the payload with the defaults
\* add would inject, and the given options, or empty options when none were given.
C7_NonMergeSetInjectsDefaults ==
    (/\ cop.op = "set"
     /\ "mergeFields" \notin cop.options.has
     /\ ("merge" \in cop.options.has => cop.options.merge = "false")) =>
        /\ Len(cop.calls) = 1
        /\ TheCall.method = "set"
        /\ TheCall.data = WithDefaults(TheSchema, cop.data, DefaultedUnset(TheSchema, cop.data))
        /\ TheCall.options = (IF cop.options.given THEN cop.options ELSE EmptyOptions)

\* set(id, { name }) with no options under the schema with defaults
C7_Witness ==
    /\ cop.op = "set"
    /\ cop.options = NoOptions
    /\ TheSchema = SchemaDefaults
    /\ cop.data = Payload(Absent, Absent)
    /\ TheCall.data["status"] = "inactive"
    /\ TheCall.options = EmptyOptions

\* C8: when the fetch of get(id) succeeds, get resolves: to undefined if the
\* document does not exist, to the document's data if it does.
C8_ReadAbsence ==
    (cop.op = "get" /\ cop.reply.ok) =>
        /\ cop.phase = "resolved"
        /\ cop.reply.value = store[TheCall.on]
        /\ ~cop.reply.value.exists => cop.result = [kind |-> "undefined"]
        /\ cop.reply.value.exists =>
              cop.result = [kind |-> "data", data |-> cop.reply.value.data]

\* get(id) of a missing document has resolved to undefined
C8_Witness ==
    /\ cop.op = "get"
    /\ cop.phase = "resolved"
    /\ ~store[TheCall.on].exists
    /\ cop.result.kind = "undefined"

\* C9: get(id) resolves to undefined only when the fetch succeeded and reported
\* no document; when the fetch fails, get rejects with the store's error.
C9_AbsentNotFailed ==
    cop.op = "get" =>
        /\ cop.result.kind = "undefined" => (cop.reply.ok /\ ~cop.reply.value.exists)
        /\ (cop.phase \in {"resolved", "rejected"} /\ ~cop.reply.ok) =>
              /\ cop.phase = "rejected"
              /\ cop.result = [kind |-> "error", error |-> cop.reply.value]

\* get(id) of a missing document, the fetch failed and get rejected
C9_Witness ==
    /\ cop.op = "get"
    /\ cop.phase = "rejected"
    /\ ~cop.reply.ok
    /\ ~store[TheCall.on].exists
    /\ cop.result.kind = "error"

\* C21: get(id) after the store completed a non-merge set(id, data) resolves to
\* the payload that set wrote, the caller's data plus the injected defaults, with a
\* timestamp where the server-timestamp sentinel was written; get(id) after a
\* completed delete(id) resolves to undefined.
C21_RoundTrip ==
    (cop.op = "get" /\ cop.phase = "resolved") =>
        LET last == written[TheCall.on]
            sent == WithDefaults(handles[last.h].schema, last.data,
                                 DefaultedUnset(handles[last.h].schema, last.data))
        IN  /\ (/\ last.op = "set"
                 /\ "mergeFields" \notin last.options.has
                 /\ ("merge" \in last.options.has => last.options.merge = "false")) =>
                    /\ cop.result.kind = "data"
                    /\ DOMAIN cop.result.data = DOMAIN sent
                    /\ \A f \in DOMAIN sent :
                          cop.result.data[f] =
                             (IF sent[f] = ServerTimestampSentinel THEN TimestampValue
                              ELSE sent[f])
            /\ last.op = "delete" => cop.result = [kind |-> "undefined"]

\* a read after set(id, { name }) under the schema with defaults: the literal
\* default and a timestamp came back
C21_Witness ==
    /\ cop.op = "get"
    /\ cop.phase = "resolved"
    /\ written[TheCall.on].op = "set"
    /\ written[TheCall.on].options = NoOptions
    /\ written[TheCall.on].data = Payload(Absent, Absent)
    /\ TheSchema = SchemaDefaults
    /\ cop.result.kind = "data"
    /\ cop.result.data["status"] = "inactive"
    /\ cop.result.data["createdAt"] = TimestampValue

\* the handle subCollection was called on, and its table entry for the name, if any
TheParent == handles[cop.h]

OwnEntry ==
    /\ TheParent.schema.defined
    /\ "subCollections" \in DOMAIN TheParent.schema
    /\ cop.name \in DOMAIN TheParent.schema.subCollections

Registered ==
    /\ OwnEntry
    /\ "collectionClass" \in DOMAIN TheParent.schema.subCollections[cop.name]
    /\ TheParent.schema.subCollections[cop.name].collectionClass # Undefined

\* C13: subCollection throws, with an error naming the sub-collection and the
\* collection, whenever the handle has no schema, the schema has no table, the
\* name is not in the table or the entry has no constructor; it then makes no
\* doc() call and constructs no handle.
C13_SubCollectionConfigError ==
    (cop.op = "subCollection" /\ ~Registered) =>
        /\ cop.phase = "threw"
        /\ cop.result.kind = "error"
        /\ cop.result.error.subCollection = cop.name
        /\ cop.result.error.collection = TheParent.collectionId
        /\ cop.lookups = <<>>
        /\ cop.news = <<>>
        /\ cop.calls = <<>>
        /\ Len(constructed) = Len(handles)

\* subCollection was called for an entry that has a schema and no constructor
C13_Witness ==
    /\ cop.op = "subCollection"
    /\ cop.name = "drafts"
    /\ OwnEntry
    /\ cop.phase = "threw"
    /\ cop.result.error = ClassDefinitionMissing("drafts", TheCollectionId)
    /\ Len(handles) = 1

\* C14: for an entry with a registered constructor, subCollection makes one doc()
\* call, for parentId, and one constructor call, of the registered constructor
\* whatever the SubCollectionClass argument, with the parent's store, the name
\* and the parent document reference; the new handle's reference comes from the
\* parent-relative lookup and no root-level lookup is made.
C14_SubCollectionInstantiates ==
    (cop.op = "subCollection" /\ Registered) =>
        /\ cop.phase = "returned"
        /\ cop.lookups = <<cop.id>>
        /\ Len(cop.news) = 1
        /\ cop.news[1].class = TheParent.schema.subCollections[cop.name].collectionClass
        /\ cop.result = [kind |-> "handle", handle |-> cop.news[1].handle]
        /\ LET k == cop.news[1].handle
               parentDocRef == [defined |-> TRUE, path |-> Append(TheParent.ref.path, cop.id)]
           IN  /\ k \in 1..Len(handles)
               /\ k # cop.h
               /\ constructed[k].class = cop.news[1].class
               /\ constructed[k].args.firestore = TheParent.firestore
               /\ constructed[k].args.collectionId = cop.name
               /\ constructed[k].args.parentRef = parentDocRef
               /\ \A i \in 1..Len(constructed[k].lookups) :
                     constructed[k].lookups[i].method = "parentRef.collection"
               /\ handles[k].ref.by = "parentRef.collection"
               /\ handles[k].ref.path = parentDocRef.path \o <<cop.name>>

\* subCollection was called with a constructor argument other than the registered one
C14_Witness ==
    /\ cop.op = "subCollection"
    /\ cop.name = "comments"
    /\ cop.classArg = "OtherCollection"
    /\ cop.phase = "returned"
    /\ constructed[cop.result.handle].class = "CommentsCollection"
    /\ handles[cop.result.handle].ref.path = <<TheCollectionId, "d1", "comments">>

\* the nested schema the table of handle j registers under a name, if any
RegisteredSchema(j, name) ==
    LET entry == handles[j].schema.subCollections[name]
    IN  IF "schema" \in DOMAIN entry THEN entry.schema ELSE NoSchema

\* a handle whose documents hold the collection of handle k
ParentOf(k) ==
    CHOOSE j \in 1..Len(handles) :
        \E d \in DocIds :
            handles[k].ref.path = handles[j].ref.path \o <<d, handles[k].collectionId>>

\* C28: the schema of every handle made by subCollection is the nested schema of
\* the parent's table entry, or none when the entry has none, whatever subSchema
\* argument was passed; so a subCollection call on such a handle returns only if
\* that registered schema has a table entry for the name, and an add on such a
\* handle injects the defaults of the registered schema only.
C28_RegisteredSchemaOnly ==
    /\ \A k \in 2..Len(handles) :
          handles[k].schema = RegisteredSchema(ParentOf(k), handles[k].collectionId)
    /\ (cop.op = "subCollection" /\ cop.phase = "returned") =>
          /\ handles[cop.result.handle].schema = RegisteredSchema(cop.h, cop.name)
          /\ constructed[cop.result.handle].args.schema = RegisteredSchema(cop.h, cop.name)
          /\ cop.h >= 2 =>
                LET reg == RegisteredSchema(ParentOf(cop.h), handles[cop.h].collectionId)
                IN  /\ HasSubCollections(reg)
                    /\ cop.name \in DOMAIN reg.subCollections
    /\ (cop.op = "add" /\ cop.h >= 2) =>
          LET reg == RegisteredSchema(ParentOf(cop.h), handles[cop.h].collectionId)
          IN  TheCall.data = WithDefaults(reg, cop.data, DefaultedUnset(reg, cop.data))

\* subCollection returned a handle for the entry without a schema although a
\* subSchema argument with defaults was passed: the handle has no schema
C28_Witness ==
    /\ cop.op = "subCollection"
    /\ cop.name = "likes"
    /\ cop.subSchema = GivenSubSchema
    /\ cop.phase = "returned"
    /\ handles[cop.result.handle].schema = NoSchema
    /\ constructed[cop.result.handle].args.schema = NoSchema

CollectionOperations == {"add", "set", "delete", "get"}

\* C15: the constructor run of every handle made exactly one collection lookup:
\* the parent-relative one, on the parent document reference, when a parent was
\* given, the root-level one on the store otherwise, and the handle's reference is
\* what that lookup returned; the store calls of the later operations on handles
\* are add, set, delete and get calls under that reference, never a lookup.
C15_OneCollectionLookup ==
    /\ Len(constructed) = Len(handles)
    /\ \A h \in 1..Len(handles) :
          LET run == constructed[h]
          IN  /\ Len(run.lookups) = 1
              /\ run.lookups[1].collectionId = run.args.collectionId
              /\ run.args.parentRef.defined =>
                    /\ run.lookups[1].method = "parentRef.collection"
                    /\ run.lookups[1].on = run.args.parentRef.path
              /\ ~run.args.parentRef.defined =>
                    /\ run.lookups[1].method = "firestore.collection"
                    /\ run.lookups[1].on = <<>>
              /\ handles[h].ref = run.lookups[1].ret
    /\ \A i \in 1..Len(cop.calls) :
          /\ cop.calls[i].method \in CollectionOperations
          /\ SubSeq(cop.calls[i].on, 1, Len(handles[cop.h].ref.path)) = handles[cop.h].ref.path

\* a handle made with a parent (by subCollection) next to one made without, and
\* a read on the former has resolved
C15_Witness ==
    /\ Len(handles) >= 2
    /\ ~constructed[1].args.parentRef.defined
    /\ constructed[2].args.parentRef.defined
    /\ constructed[2].lookups[1].method = "parentRef.collection"
    /\ cop.op = "get"
    /\ cop.h = 2
    /\ cop.phase = "resolved"


RECURSIVE ChainOps(_)
ChainOps(b) ==
    IF uorigin[b].this = 0 THEN <<>>
    ELSE Append(ChainOps(uorigin[b].this),
                [fieldPath |-> uorigin[b].fieldPath, value |-> uorigin[b].value])

\* the last operation of a chain that names the path
LastOn(ops, path) ==
    LET idx == { i \in 1..Len(ops) : ops[i].fieldPath = path }
    IN  ops[CHOOSE i \in idx : \A j \in idx : j <= i]

\* C11: the accumulated map of every builder has exactly one entry per distinct
\* field path written in its chain, and the entry for a path is the value or
\* sentinel of the last operation of the chain that named the path.
C11_LastWriteWins ==
    \A b \in 1..Len(ubuilders) :
        LET ops == ChainOps(b)
            paths == { ops[i].fieldPath : i \in 1..Len(ops) }
        IN  /\ DOMAIN ubuilders[b]._updateData = paths
            /\ \A p \in paths : ubuilders[b]._updateData[p] = LastOn(ops, p).value

\* increment(count, 1) then increment(count, 2): only the second increment is kept
C11_Witness ==
    /\ Len(ubuilders) = 3
    /\ ChainOps(3) = <<[fieldPath |-> "count", value |-> FieldValue("increment", <<"1">>)],
                       [fieldPath |-> "count", value |-> FieldValue("increment", <<"2">>)]>>
    /\ DOMAIN ubuilders[3]._updateData = {"count"}
    /\ ubuilders[3]._updateData["count"] = FieldValue("increment", <<"2">>)

\* C12: commit() on a builder whose map is not empty makes exactly one update call,
\* on the builder's document reference, carrying the whole accumulated map; when
\* that call resolves, commit resolves to the write outcome the call returned.
C12_CommitOneUpdate ==
    (uop.op = "commit" /\ DOMAIN ubuilders[uop.this]._updateData # {}) =>
        /\ uop.calls = <<[method |-> "update", on |-> ubuilders[uop.this]._docRef,
                          data |-> ubuilders[uop.this]._updateData]>>
        /\ uop.phase \in {"pending", "resolved", "rejected"}
        /\ uop.phase = "resolved" => (uop.reply.ok /\ uop.result = uop.reply.value)

\* a builder holding two fields was committed and the update call resolved
C12_Witness ==
    /\ uop.op = "commit"
    /\ DOMAIN ubuilders[uop.this]._updateData = {"count", "tags"}
    /\ Len(uop.calls) = 1
    /\ uop.phase = "resolved"
    /\ uop.result = WriteResult

OperationAddingMethods ==
    {"_set", "_increment", "_arrayUnion", "_arrayRemove", "_serverTimestamp", "_deleteField"}

\* C16: every operation-adding call returns an instance that did not exist before
\* (so distinct from its receiver) and leaves the map of the receiver, and of every
\* existing instance, as it was; the constructed builder stays empty.
C16_UpdateBuilderImmutable ==
    [][ucall' # ucall =>
         /\ ucall'.method \in OperationAddingMethods
         /\ ucall'.this \in 1..Len(ubuilders)
         /\ ucall'.returned # ucall'.this
         /\ ucall'.returned \notin 1..Len(ubuilders)
         /\ ucall'.returned \in 1..Len(ubuilders')
         /\ \A b \in 1..Len(ubuilders) : ubuilders'[b] = ubuilders[b]
         /\ DOMAIN ubuilders'[1]._updateData = {}]_vars

\* two builders were derived from the empty one, the second by deleteField
C16_Witness ==
    /\ Len(ubuilders) = 3
    /\ ucall.this = 1
    /\ ucall.returned = 3
    /\ ucall.method = "_deleteField"
    /\ uorigin[2].this = 1
    /\ DOMAIN ubuilders[1]._updateData = {}
    /\ DOMAIN ubuilders[3]._updateData # {}

\* C26: a commit of an empty map resolves to an explicit no-op result: a value
\* that is not returned as a store write outcome and differs from the write
\* outcome a real update call resolves to.
C26_ExplicitNoOpResult ==
    (uop.op = "commit" /\ uop.phase = "resolved" /\ uop.calls = <<>>) =>
        /\ uop.result.kind # WriteResult.kind
        /\ uop.result # WriteResult

\* the freshly constructed builder was committed and resolved to the placeholder
C26_Witness ==
    /\ uop.op = "commit"
    /\ uop.this = 1
    /\ uop.phase = "resolved"
    /\ uop.calls = <<>>
    /\ uop.warnings = 1
    /\ uop.result = PlaceholderResult

\* the sentinel constructor each operation-adding method stands for
ConstructorOf(method) ==
    CASE method = "_increment" -> "increment"
      [] method = "_arrayUnion" -> "arrayUnion"
      [] method = "_arrayRemove" -> "arrayRemove"
      [] method = "_serverTimestamp" -> "serverTimestamp"
      [] method = "_deleteField" -> "delete"

\* the arguments the constructor is to receive: the delta, the elements one by
\* one in their order, or nothing
ConstructorArgsOf(method, given) ==
    CASE method = "_increment" -> <<given[1]>>
      [] method \in {"_arrayUnion", "_arrayRemove"} ->
            [i \in 1..Len(given[1]) |-> given[1][i]]
      [] OTHER -> <<>>

\* C25: each increment, arrayUnion, arrayRemove, serverTimestamp and deleteField
\* call makes exactly one sentinel constructor call, the matching one, during the
\* call itself, with the given delta or with the elements as separate arguments
\* in order, and the returned builder holds the sentinel it returned at the path;
\* a commit makes no constructor call and its update call carries the builder's
\* recorded values unchanged.
C25_SentinelRecording ==
    /\ ucall.method \in {"_increment", "_arrayUnion", "_arrayRemove",
                          "_serverTimestamp", "_deleteField"} =>
          LET made == [constructor |-> ConstructorOf(ucall.method),
                       args |-> ConstructorArgsOf(ucall.method, ucall.given)]
          IN  /\ ucall.fieldValueCalls = <<made>>
              /\ ubuilders[ucall.returned]._updateData[ucall.fieldPath] =
                     FieldValue(made.constructor, made.args)
    /\ uop.op = "commit" =>
          /\ uop.fieldValueCalls = <<>>
          /\ \A i \in 1..Len(uop.calls) :
                uop.calls[i].data = ubuilders[uop.this]._updateData

\* arrayUnion of two elements was recorded on a builder whose commit then sent it
C25_Witness ==
    /\ ucall.method = "_arrayUnion"
    /\ ucall.given = << <<"a", "b">> >>
    /\ ucall.fieldValueCalls = <<[constructor |-> "arrayUnion", args |-> <<"a", "b">>]>>
    /\ uop.op = "commit"
    /\ uop.this = ucall.returned
    /\ Len(uop.calls) = 1
    /\ uop.calls[1].data[ucall.fieldPath] = FieldValue("arrayUnion", <<"a", "b">>)

\* C20: commit() leaves every builder's map as it was, and each commit() of a
\* builder whose map is not empty makes one more update call carrying the whole
\* map; so n commits of one builder make n update calls with the same map.
C20_CommitNotConsumed ==
    [][/\ uop' # uop => ubuilders' = ubuilders
       /\ (uop' # uop /\ uop'.phase = "pending") =>
             /\ uop'.op = "commit"
             /\ uupdates' = uupdates + 1
             /\ uop'.calls = <<[method |-> "update", on |-> ubuilders[uop'.this]._docRef,
                                data |-> ubuilders[uop'.this]._updateData]>>
       /\ uupdates' # uupdates => (uop' # uop /\ uop'.phase = "pending")]_vars

\* the only builder with a map, holding an increment, was committed a second time
C20_Witness ==
    /\ Len(ubuilders) = 2
    /\ uupdates = 2
    /\ uop.op = "commit"
    /\ uop.this = 2
    /\ uop.phase = "pending"
    /\ "count" \in DOMAIN ubuilders[2]._updateData
    /\ ubuilders[2]._updateData["count"] = FieldValue("increment", <<"1">>)
    /\ uop.calls[1].data = ubuilders[2]._updateData

(***************************************************************************)
(* Properties of the three classes together                                *)
(***************************************************************************)
\* C19: add, set, delete and get on a handle, getSnapshot and get on a query
\* builder and commit on an update builder make one store call and no second
\* one, whatever its outcome; when that call fails the operation rejects with the
\* error the store gave, unchanged.
C19_StoreErrorsPropagate ==
    /\ cop.op \in CollectionOperations =>
          /\ Len(cop.calls) = 1
          /\ (cop.phase # "pending" /\ ~cop.reply.ok) =>
                /\ cop.phase = "rejected"
                /\ cop.result = [kind |-> "error", error |-> cop.reply.value]
                /\ cop.reply.value \in StoreErrors
    /\ qop.op \in {"getSnapshot", "get"} =>
          /\ Len(qop.fetches) = 1
          /\ (qop.phase # "pending" /\ ~qop.reply.ok) =>
                /\ qop.phase = "rejected"
                /\ qop.result = qop.reply.value
                /\ qop.reply.value \in FetchErrors
    /\ (uop.op = "commit" /\ uop.calls # <<>>) =>
          /\ Len(uop.calls) = 1
          /\ (uop.phase # "pending" /\ ~uop.reply.ok) =>
                /\ uop.phase = "rejected"
                /\ uop.result = [kind |-> "error", error |-> uop.reply.value]
                /\ uop.reply.value \in UpdateErrors

\* a set on the handle, a get on the query builder and a commit have each failed
C19_Witness ==
    /\ cop.op = "set"
    /\ cop.phase = "rejected"
    /\ cop.result.error \in StoreErrors
    /\ qop.op = "get"
    /\ qop.phase = "rejected"
    /\ qop.result \in FetchErrors
    /\ uop.op = "commit"
    /\ uop.phase = "rejected"
    /\ uop.result.error \in UpdateErrors

====
